---- MODULE Spec2Model ----
(***************************************************************************)
(* 3speak-player: the single-player engine (Player), the player pool       *)
(* (PlayerPool) and the metadata client (ThreeSpeakApi), as state machines.*)
(*                                                                         *)
(* The browser objects the code drives are part of the state:              *)
(*   dom      the <video> elements (src, poster, paused, muted, loop,      *)
(*            videoWidth/videoHeight, currentTime, duration); times are    *)
(*            in tenths of a second                                        *)
(*   engines  the Player objects constructed so far, in construction order *)
(*   pending  how many api.fetchSource promises of each kind a load(ref)   *)
(*            is awaiting; cur marks the one whose load() is the engine's  *)
(*            latest load call                                             *)
(*   players / activeId   the PlayerPool's Map (insertion order) and       *)
(*            its active id                                                *)
(*   storage  localStorage: the text stored under each resume key          *)
(*   network  how the servers answer each kind of request, and the         *)
(*            requests the last prefetch call made                         *)
(*   emitted  the emit() calls of the last step, with the handlers each    *)
(*            one invoked                                                  *)
(*   lastOp   the operation of the last step and how it returned           *)
(***************************************************************************)
EXTENDS Integers, Sequences, FiniteSets, TLC

VARIABLES platform, engines, dom, pending, players, activeId, storage,
          network, emitted, lastOp

vars == <<platform, engines, dom, pending, players, activeId, storage,
          network, emitted, lastOp>>

---------------------------------------------------------------------------
(* Bounds *)

MaxSuperseded == 1   \* superseded load(ref) calls of one reference still in flight
MaxEngines == 3      \* Player objects a pool constructs in one behaviour
MaxListeners == 3    \* functions subscribed to one event of one engine
MaxCalls == 3        \* calls of detectPlatform in one behaviour

---------------------------------------------------------------------------
(* Values *)

None == "none"               \* null / undefined / absent attribute
Blob == "blob"               \* the MediaSource object URL hls.js sets as src
Surfaces == {"s1", "s2"}
PoolIds == {"a", "b"}
Handlers == {"h1"}

\* Handlers by what their body does: h1 returns, hThrow throws, hReload
\* calls player.load(source) on the engine that invoked it
Callbacks == {"h1", "hThrow", "hReload"}
HandlerBody == [h \in Callbacks |->
                  CASE h = "hThrow" -> "throws"
                    [] h = "hReload" -> "reloads"
                    [] OTHER -> "returns"]
EventNames == {"loading", "ready", "resize", "error", "fallback", "timeupdate", "resume"}
SubscribedEvents == {"loading"}   \* the event the user's handler listens to

\* Metadata the API serves.  alice/v1 has two distinct fallbacks and a
\* thumbnail, bob/v2 has no fallback and no thumbnail.
MetaA == [videoUrl |-> "a0", videoUrlFallback1 |-> "a1",
          videoUrlFallback2 |-> "a2", videoUrlFallback3 |-> None,
          thumbnail |-> "pa"]
MetaB == [videoUrl |-> "b0", videoUrlFallback1 |-> None,
          videoUrlFallback2 |-> None, videoUrlFallback3 |-> None,
          thumbnail |-> None]

Catalog(author, permlink) ==
  IF author = "alice" /\ permlink = "v1" THEN MetaA
  ELSE IF author = "bob" /\ permlink = "v2" THEN MetaB
  ELSE [videoUrl |-> None]

\* api.ts metadataToSource
metadataToSource(meta) ==
  LET f1 == IF meta.videoUrlFallback1 # None /\ meta.videoUrlFallback1 # meta.videoUrl
            THEN <<meta.videoUrlFallback1>> ELSE <<>>
      f2 == IF meta.videoUrlFallback2 # None /\ meta.videoUrlFallback2 # meta.videoUrl
            THEN <<meta.videoUrlFallback2>> ELSE <<>>
      f3 == IF meta.videoUrlFallback3 # None /\ meta.videoUrlFallback3 # meta.videoUrl
            THEN <<meta.videoUrlFallback3>> ELSE <<>>
  IN [url |-> meta.videoUrl, fallbacks |-> f1 \o f2 \o f3, poster |-> meta.thumbnail]

\* The VideoSource objects callers pass to load(source) / pool.add
SrcA == metadataToSource(MetaA)
SrcB == metadataToSource(MetaB)
DirectSources == {SrcA, SrcB}

\* A reference string: an optional leading "@" and the "/"-separated parts.
RefInputs == { [at |-> FALSE, parts |-> <<"alice", "v1">>],
               [at |-> TRUE,  parts |-> <<"alice", "v1">>],
               [at |-> FALSE, parts |-> <<"alice">>],
               [at |-> TRUE,  parts |-> <<"alice", "">>] }

\* The references load(ref) accepts: an author and a permlink, both non-empty
ValidRefs == {r \in RefInputs : Len(r.parts) >= 2 /\ r.parts[1] # "" /\ r.parts[2] # ""}

\* The promises a load(ref) of engine 1 can be awaiting
Promises == {[e |-> 1, author |-> r.parts[1], permlink |-> r.parts[2], cur |-> c] :
               r \in ValidRefs, c \in BOOLEAN}

\* DEFAULT_CONFIG
DefaultMuted == TRUE
DefaultLoop == FALSE
DefaultPoster == TRUE
DefaultAutopause == FALSE
DefaultResume == FALSE

\* Number.NaN: an unknown duration, and what parseFloat gives for a text
\* that does not begin with a number
NaN == 0 - 1

\* The references positions are saved under (`3speak_pos_${ref}`)
ResumeKeys == {r.parts : r \in ValidRefs}

\* String(time): the decimal text of a number
String(time) == [text |-> "number", value |-> time]

\* What getItem returns for a key that has no item
NoItem == [text |-> "null", value |-> 0]

\* parseFloat
parseFloat(txt) == IF txt.text = "number" THEN txt.value ELSE NaN

\* How the servers answer: the embed and the watch endpoint of the API (a
\* metadata object, a body with an error field, an HTTP error status, or no
\* answer at all), the manifest URL and the first variant's URL (no answer,
\* a master playlist, a media playlist), and the first segment's URL
Answers == [embed : {"ok", "okError", "http404", "throw"},
            watch : {"ok", "okError", "http404", "throw"},
            manifest : {"throw", "master", "media"},
            variant : {"throw", "media"},
            segment : {"ok", "throw"}]

Online == [embed |-> "ok", watch |-> "ok", manifest |-> "master",
           variant |-> "media", segment |-> "ok"]

\* Times in tenths of a second: the floor below which a position is not
\* saved, and the window before the end in which it is not restored
OneSecond == 10
ThreeSeconds == 30

\* Texts found in localStorage: decimal numbers, a text that is no number,
\* the empty text
StoredTexts == {String(4), String(400), [text |-> "abc", value |-> 0], [text |-> "", value |-> 0]}

\* An empty localStorage
NoItems == [k \in ResumeKeys |-> NoItem]

Platforms == { [supportsHlsJs |-> TRUE,  supportsNativeHLS |-> FALSE],
               [supportsHlsJs |-> TRUE,  supportsNativeHLS |-> TRUE],
               [supportsHlsJs |-> FALSE, supportsNativeHLS |-> TRUE],
               [supportsHlsJs |-> FALSE, supportsNativeHLS |-> FALSE] }

\* Every PlatformInfo detectPlatform can return (supportsMSE is supportsHlsJs)
PlatformInfos == [isIOS : BOOLEAN, isSafari : BOOLEAN,
                  supportsHlsJs : BOOLEAN, supportsNativeHLS : BOOLEAN]

---------------------------------------------------------------------------
(* Objects *)

\* Volumes in tenths: 1.0, and the arguments of setVolume
FullVolume == 10
Volumes == {0 - 2, 0, 5, 10, 15}

MathMin(a, b) == IF a < b THEN a ELSE b
MathMax(a, b) == IF a > b THEN a ELSE b

\* A <video> element as the browser creates it
NewElement == [src |-> None, poster |-> None, paused |-> TRUE,
               muted |-> FALSE, loop |-> FALSE, vw |-> 0, vh |-> 0,
               currentTime |-> 0, duration |-> NaN, volume |-> FullVolume]

\* new Player(config): the field initialisers and the constructor
NewPlayer == [video |-> None, cleanupFns |-> {}, hls |-> 0, hlsInst |-> {},
              listeners |-> [ev \in EventNames |-> <<>>],
              fallbackIndex |-> 0, fallbacks |-> <<>>, ready |-> FALSE,
              destroyed |-> FALSE, currentRef |-> <<>>,
              resumeSaveTimer |-> FALSE, observer |-> 0, observers |-> {},
              cfgMuted |-> DefaultMuted, cfgLoop |-> DefaultLoop,
              cfgPoster |-> DefaultPoster, cfgAutopause |-> DefaultAutopause,
              cfgResume |-> DefaultResume]

\* The world an operation runs in and changes; res is how the call returned.
\* bodies is the code of the user's handlers.
World == [eng |-> engines, dom |-> dom, store |-> storage, out |-> <<>>, res |-> "ok",
          bodies |-> HandlerBody]

Throw(w, err) == [w EXCEPT !.res = err]

\* The media element load algorithm: a new resource, no dimensions and no
\* duration yet, playback position 0
SetSrc(el, url) == [el EXCEPT !.src = url, !.vw = 0, !.vh = 0,
                              !.currentTime = 0, !.duration = NaN]

---------------------------------------------------------------------------
(* Player: event emitter *)

Range(seq) == {seq[i] : i \in DOMAIN seq}

\* Set.prototype.add and Set.prototype.delete: a Set keeps insertion order
SetAdd(seq, x) == IF x \in Range(seq) THEN seq ELSE Append(seq, x)
SetDelete(seq, x) == SelectSeq(seq, LAMBDA y : y # x)

\* The function objects the listeners hold: a handler itself (once = 0) or
\* the wrapper number `once` that Player.once built around it
Fn(h) == [fn |-> h, once |-> 0]

\* Player.on
PlayerOn(w, e, ev, h) == [w EXCEPT !.eng[e].listeners[ev] = SetAdd(@, Fn(h))]

\* Player.off
PlayerOff(w, e, ev, h) == [w EXCEPT !.eng[e].listeners[ev] = SetDelete(@, Fn(h))]

\* The function Player.on and Player.once return, for the function object cb
\* they registered: off(event, cb)
Unsub(w, e, ev, cb) == [w EXCEPT !.eng[e].listeners[ev] = SetDelete(@, cb)]

\* Player.once: on(event, wrapped) with a new wrapper
PlayerOnce(w, e, ev, h) ==
  LET used == {cb.once : cb \in Range(w.eng[e].listeners[ev])}
      k == CHOOSE i \in 1..(Cardinality(used) + 1) : i \notin used
  IN [w EXCEPT !.eng[e].listeners[ev] = SetAdd(@, [fn |-> h, once |-> k])]

RECURSIVE Emit(_, _, _, _)
RECURSIVE forEach(_, _, _, _, _, _, _)
RECURSIVE forEachNoCatch(_, _, _, _, _, _, _)
RECURSIVE forEachSnapshot(_, _, _, _, _, _, _)
RECURSIVE PlayerLoadSource(_, _, _)

\* One call of a listener from emission number k of the step: the wrapper
\* of once unsubscribes itself and then calls the handler; the handler's
\* body runs. load() is async: it returns a promise and never throws.
Invoke(w, e, ev, arg, cb, k) ==
  LET w1 == IF cb.once # 0 THEN Unsub(w, e, ev, cb) ELSE w
      w2 == [w1 EXCEPT !.out[k].to = Append(@, cb)]
      body == w2.bodies[cb.fn]
  IN CASE body = "throws"  -> Throw(w2, "HandlerError")
       [] body = "reloads" ->
            [PlayerLoadSource(w2, e, [url |-> "b0", fallbacks |-> <<>>, poster |-> None])
               EXCEPT !.res = w2.res]
       [] OTHER -> w2

\* forEach that lets a handler's exception end the iteration and reach the
\* caller of emit
forEachNoCatch(w, e, ev, arg, snap, i, k) ==
  IF i > Len(snap) THEN w
  ELSE IF snap[i] \notin Range(w.eng[e].listeners[ev])
       THEN forEachNoCatch(w, e, ev, arg, snap, i + 1, k)
       ELSE LET r == Invoke(w, e, ev, arg, snap[i], k)
            IN IF r.res = "HandlerError" THEN r
               ELSE forEachNoCatch(r, e, ev, arg, snap, i + 1, k)

\* forEach over a copy of the Set: an entry deleted during the emission is
\* still called
forEachSnapshot(w, e, ev, arg, snap, i, k) ==
  IF i > Len(snap) THEN w
  ELSE LET r == Invoke(w, e, ev, arg, snap[i], k)
       IN forEachSnapshot([r EXCEPT !.res = w.res], e, ev, arg, snap, i + 1, k)

\* Set.forEach with the try/catch of Player.emit around each call: the
\* entries are visited in insertion order, an entry deleted before its turn
\* is not visited, a handler's exception is logged and dropped
forEach(w, e, ev, arg, snap, i, k) ==
  IF i > Len(snap) THEN w
  ELSE IF snap[i] \notin Range(w.eng[e].listeners[ev])
       THEN forEach(w, e, ev, arg, snap, i + 1, k)
       ELSE LET r == Invoke(w, e, ev, arg, snap[i], k)
            IN forEach([r EXCEPT !.res = w.res], e, ev, arg, snap, i + 1, k)

\* Player.emit. The step's record of the emission keeps the listeners at the
\* time of the call (subs) and the ones it called (to).
Emit(w, e, ev, arg) ==
  LET snap == w.eng[e].listeners[ev]
      w1 == [w EXCEPT !.out = Append(@, [ev |-> ev, arg |-> arg, subs |-> snap, to |-> <<>>])]
  IN forEach(w1, e, ev, arg, snap, 1, Len(w1.out))

---------------------------------------------------------------------------
(* Player: lifecycle *)

\* hls.destroy(): the instance is gone and its media is detached
HlsDestroy(w, e, h) ==
  LET inst == CHOOSE i \in w.eng[e].hlsInst : i.id = h
      w1 == [w EXCEPT !.eng[e].hlsInst = @ \ {inst}]
  IN IF w1.dom[inst.media].src = Blob
     THEN [w1 EXCEPT !.dom[inst.media] = SetSrc(@, None)]
     ELSE w1

\* Player.destroyHls
destroyHls(w, e) ==
  IF w.eng[e].hls # 0
  THEN [HlsDestroy(w, e, w.eng[e].hls) EXCEPT !.eng[e].hls = 0]
  ELSE w

\* Player.destroyAutopause: observer.disconnect()
destroyAutopause(w, e) ==
  IF w.eng[e].observer # 0
  THEN [w EXCEPT !.eng[e].observers = {o \in @ : o.id # w.eng[e].observer},
                 !.eng[e].observer = 0]
  ELSE w

\* new IntersectionObserver(): an object distinct from the connected ones
NewObserverId(p) ==
  CHOOSE i \in 1..(Cardinality(p.observers) + 1) : \A o \in p.observers : o.id # i

\* Player.setupAutopause, where IntersectionObserver is defined
setupAutopause(w, e, el) ==
  LET w1 == destroyAutopause(w, e)
      id == NewObserverId(w1.eng[e])
  IN [w1 EXCEPT !.eng[e].observers = @ \cup {[id |-> id, target |-> el]},
                !.eng[e].observer = id]

\* detach that leaves the fallback cursor where it was
PlayerDetachKeepsCursor(w, e) ==
  LET w1 == destroyHls(w, e)
      w2 == [w1 EXCEPT !.eng[e].cleanupFns = {}]
      v  == w2.eng[e].video
      w3 == IF v # None
            THEN [w2 EXCEPT !.dom[v] = [SetSrc(@, None) EXCEPT !.paused = TRUE]]
            ELSE w2
      w4 == destroyAutopause(w3, e)
  IN [w4 EXCEPT !.eng[e].resumeSaveTimer = FALSE,
                !.eng[e].video = None,
                !.eng[e].ready = FALSE,
                !.eng[e].fallbacks = <<>>]

\* Player.detach
PlayerDetach(w, e) ==
  LET w1 == destroyHls(w, e)
      w2 == [w1 EXCEPT !.eng[e].cleanupFns = {}]
      v  == w2.eng[e].video
      w3 == IF v # None
            THEN [w2 EXCEPT !.dom[v] = [SetSrc(@, None) EXCEPT !.paused = TRUE]]
            ELSE w2
      w4 == destroyAutopause(w3, e)
  IN [w4 EXCEPT !.eng[e].resumeSaveTimer = FALSE,
                !.eng[e].video = None,
                !.eng[e].ready = FALSE,
                !.eng[e].fallbackIndex = 0,
                !.eng[e].fallbacks = <<>>]

\* Player.bindVideoEvents: the listeners are registered on the element
bindVideoEvents(w, e, el) == [w EXCEPT !.eng[e].cleanupFns = @ \cup {el}]

\* attach that takes the new element without detaching from the old one
PlayerAttachNoDetach(w, e, el) ==
  IF w.eng[e].destroyed THEN Throw(w, "DestroyedError")
  ELSE IF w.eng[e].video = el THEN w
  ELSE LET w2 == [w EXCEPT !.eng[e].video = el,
                           !.dom[el].muted = w.eng[e].cfgMuted,
                           !.dom[el].loop = w.eng[e].cfgLoop]
           w3 == bindVideoEvents(w2, e, el)
       IN IF w3.eng[e].cfgAutopause THEN setupAutopause(w3, e, el) ELSE w3

\* Player.attach
PlayerAttach(w, e, el) ==
  IF w.eng[e].destroyed THEN Throw(w, "DestroyedError")
  ELSE IF w.eng[e].video = el THEN w
  ELSE LET w1 == PlayerDetach(w, e)
           w2 == [w1 EXCEPT !.eng[e].video = el,
                            !.dom[el].muted = w1.eng[e].cfgMuted,
                            !.dom[el].loop = w1.eng[e].cfgLoop]
           w3 == bindVideoEvents(w2, e, el)
       IN IF w3.eng[e].cfgAutopause THEN setupAutopause(w3, e, el) ELSE w3

\* Player.enableAutopause
PlayerEnableAutopause(w, e) ==
  LET w1 == [w EXCEPT !.eng[e].cfgAutopause = TRUE]
  IN IF w1.eng[e].video # None /\ w1.eng[e].observer = 0
     THEN setupAutopause(w1, e, w1.eng[e].video)
     ELSE w1

\* disableAutopause that clears the flag and leaves the observer connected
PlayerDisableAutopauseFlagOnly(w, e) ==
  [w EXCEPT !.eng[e].cfgAutopause = FALSE]

\* Player.disableAutopause
PlayerDisableAutopause(w, e) ==
  destroyAutopause([w EXCEPT !.eng[e].cfgAutopause = FALSE], e)

\* Player.destroy
PlayerDestroy(w, e) ==
  LET w1 == PlayerDetach(w, e)
  IN [w1 EXCEPT !.eng[e].listeners = [ev \in EventNames |-> <<>>],
                !.eng[e].destroyed = TRUE]

---------------------------------------------------------------------------
(* Player: loading and fallback *)

\* new Hls(): an object distinct from every live instance and from the one
\* the engine held when the call started
NewHlsId(p) ==
  CHOOSE i \in 1..(Cardinality(p.hlsInst) + 2) :
    /\ i # p.hls
    /\ \A inst \in p.hlsInst : inst.id # i
    /\ \A j \in 1..(i - 1) : j = p.hls \/ \E inst \in p.hlsInst : inst.id = j

\* loadSource that does not clean up the instance it replaces
loadSourceNoCleanup(w, e, hlsUrl) ==
  IF w.eng[e].video = None THEN w
  ELSE LET v  == w.eng[e].video
           id == NewHlsId(w.eng[e])
       IN IF platform.supportsHlsJs
          THEN [w EXCEPT !.eng[e].hlsInst = @ \cup {[id |-> id, url |-> hlsUrl, media |-> v]},
                         !.eng[e].hls = id,
                         !.dom[v] = SetSrc(@, Blob)]
          ELSE IF platform.supportsNativeHLS
          THEN [w EXCEPT !.dom[v] = SetSrc(@, hlsUrl)]
          ELSE Emit(w, e, "error", [message |-> "No HLS support detected", fatal |-> TRUE])

\* Player.loadSource
loadSource(w, e, hlsUrl) ==
  IF w.eng[e].video = None THEN w
  ELSE LET w1 == destroyHls(w, e)
           v  == w1.eng[e].video
           id == NewHlsId(w.eng[e])
       IN IF platform.supportsHlsJs
          THEN [w1 EXCEPT !.eng[e].hlsInst = @ \cup {[id |-> id, url |-> hlsUrl, media |-> v]},
                          !.eng[e].hls = id,
                          !.dom[v] = SetSrc(@, Blob)]
          ELSE IF platform.supportsNativeHLS
          THEN [w1 EXCEPT !.dom[v] = SetSrc(@, hlsUrl)]
          ELSE Emit(w1, e, "error", [message |-> "No HLS support detected", fatal |-> TRUE])

\* Player.load, from the reset of the ready and fallback state to the end
LoadApply(w, e, source) ==
  LET w1 == [w EXCEPT !.eng[e].ready = FALSE,
                      !.eng[e].fallbackIndex = 0,
                      !.eng[e].fallbacks = source.fallbacks]
      v  == w1.eng[e].video
      w2 == IF w1.eng[e].cfgPoster /\ source.poster # None /\ v # None
            THEN [w1 EXCEPT !.dom[v].poster = source.poster]
            ELSE w1
  IN Emit(loadSource(w2, e, source.url), e, "loading", [on |-> TRUE])

\* Player.load(source)
PlayerLoadSource(w, e, source) ==
  IF w.eng[e].video = None THEN Throw(w, "NotAttachedError")
  ELSE LoadApply([w EXCEPT !.eng[e].currentRef = <<>>], e, source)

\* Player.loadSource of src/core/player.ts
loadSourceCore(w, e, hlsUrl) ==
  IF w.eng[e].video = None THEN w
  ELSE LET w1 == destroyHls(w, e)
           v  == w1.eng[e].video
           id == NewHlsId(w.eng[e])
       IN IF platform.isIOS \/ (platform.isSafari /\ ~platform.supportsHlsJs)
          THEN [w1 EXCEPT !.dom[v] = SetSrc(@, hlsUrl)]
          ELSE IF platform.supportsHlsJs
          THEN [w1 EXCEPT !.eng[e].hlsInst = @ \cup {[id |-> id, url |-> hlsUrl, media |-> v]},
                          !.eng[e].hls = id,
                          !.dom[v] = SetSrc(@, Blob)]
          ELSE IF platform.supportsNativeHLS
          THEN [w1 EXCEPT !.dom[v] = SetSrc(@, hlsUrl)]
          ELSE Emit(w1, e, "error", [message |-> "No HLS support detected", fatal |-> TRUE])

\* Player.load(source) of src/core/player.ts
PlayerLoadSourceCore(w, e, source) ==
  IF w.eng[e].video = None THEN Throw(w, "NotAttachedError")
  ELSE LET w1 == [w EXCEPT !.eng[e].ready = FALSE,
                           !.eng[e].fallbackIndex = 0,
                           !.eng[e].fallbacks = source.fallbacks]
           v  == w1.eng[e].video
           w2 == IF w1.eng[e].cfgPoster /\ source.poster # None
                 THEN [w1 EXCEPT !.dom[v].poster = source.poster]
                 ELSE w1
       IN Emit(loadSourceCore(w2, e, source.url), e, "loading", [on |-> TRUE])

\* load(ref) that records the reference before it validates it
PlayerLoadRefRecordsFirst(w, e, ref) ==
  IF w.eng[e].video = None THEN Throw(w, "NotAttachedError")
  ELSE IF Len(ref.parts) < 2 \/ ref.parts[1] = "" \/ ref.parts[2] = ""
  THEN Throw([w EXCEPT !.eng[e].currentRef = ref.parts], "InvalidReferenceError")
  ELSE [Emit([w EXCEPT !.eng[e].currentRef = ref.parts], e, "loading", [on |-> TRUE])
          EXCEPT !.res = "pending"]

\* Player.load(ref) up to the await: res "pending" means the call is awaiting
\* api.fetchSource(author, permlink)
PlayerLoadRef(w, e, ref) ==
  IF w.eng[e].video = None THEN Throw(w, "NotAttachedError")
  ELSE IF Len(ref.parts) < 2 \/ ref.parts[1] = "" \/ ref.parts[2] = ""
  THEN Throw(w, "InvalidReferenceError")
  ELSE [Emit([w EXCEPT !.eng[e].currentRef = ref.parts], e, "loading", [on |-> TRUE])
          EXCEPT !.res = "pending"]

\* tryFallback that reports the cursor before advancing it
tryFallbackIndexBefore(w, e, h) ==
  LET p == w.eng[e] IN
  IF p.fallbackIndex < Len(p.fallbacks)
  THEN LET fallbackUrl == p.fallbacks[p.fallbackIndex + 1]
           w1 == [w EXCEPT !.eng[e].fallbackIndex = @ + 1]
           w2 == Emit(w1, e, "fallback", [url |-> fallbackUrl, index |-> p.fallbackIndex])
       IN IF h # 0
          THEN [w2 EXCEPT !.eng[e].hlsInst =
                  {IF i.id = h THEN [i EXCEPT !.url = fallbackUrl] ELSE i : i \in @},
                  !.res = "fallback"]
          ELSE IF p.video # None
          THEN [w2 EXCEPT !.dom[p.video] = SetSrc(@, fallbackUrl), !.res = "fallback"]
          ELSE [w2 EXCEPT !.res = "fallback"]
  ELSE w

\* tryFallback that starts the fallback URL as a load starts a source: not
\* ready
tryFallbackNotReady(w, e, h) ==
  LET p == w.eng[e] IN
  IF p.fallbackIndex < Len(p.fallbacks)
  THEN LET fallbackUrl == p.fallbacks[p.fallbackIndex + 1]
           w1 == [w EXCEPT !.eng[e].fallbackIndex = @ + 1, !.eng[e].ready = FALSE]
           w2 == Emit(w1, e, "fallback", [url |-> fallbackUrl, index |-> w1.eng[e].fallbackIndex])
       IN IF h # 0
          THEN [w2 EXCEPT !.eng[e].hlsInst =
                  {IF i.id = h THEN [i EXCEPT !.url = fallbackUrl] ELSE i : i \in @},
                  !.res = "fallback"]
          ELSE IF p.video # None
          THEN [w2 EXCEPT !.dom[p.video] = SetSrc(@, fallbackUrl), !.res = "fallback"]
          ELSE [w2 EXCEPT !.res = "fallback"]
  ELSE w

\* Player.tryFallback; h = 0 is the call without an hls argument
tryFallback(w, e, h) ==
  LET p == w.eng[e] IN
  IF p.fallbackIndex < Len(p.fallbacks)
  THEN LET fallbackUrl == p.fallbacks[p.fallbackIndex + 1]
           w1 == [w EXCEPT !.eng[e].fallbackIndex = @ + 1]
           w2 == Emit(w1, e, "fallback", [url |-> fallbackUrl, index |-> w1.eng[e].fallbackIndex])
       IN IF h # 0
          THEN [w2 EXCEPT !.eng[e].hlsInst =
                  {IF i.id = h THEN [i EXCEPT !.url = fallbackUrl] ELSE i : i \in @},
                  !.res = "fallback"]
          ELSE IF p.video # None
          THEN [w2 EXCEPT !.dom[p.video] = SetSrc(@, fallbackUrl), !.res = "fallback"]
          ELSE [w2 EXCEPT !.res = "fallback"]
  ELSE w

\* The Hls.Events.ERROR handler loadSource registers on instance h
OnHlsError(w, e, h, fatal) ==
  IF fatal
  THEN LET w1 == tryFallback(w, e, h)
       IN IF w1.res = "fallback" THEN w1
          ELSE LET w2 == Emit(w1, e, "error", [message |-> "HLS fatal error", fatal |-> TRUE])
               IN [HlsDestroy(w2, e, h) EXCEPT !.eng[e].hls = 0]
  ELSE Emit(w, e, "error", [message |-> "HLS error", fatal |-> FALSE])

\* 'error' listener that tries the fallback whether or not hls.js is in use
OnVideoErrorAlways(w, e) ==
  LET w1 == tryFallback(w, e, 0)
  IN IF w1.res = "fallback" THEN w1
     ELSE Emit(w1, e, "error", [message |-> "Video playback error", fatal |-> TRUE])

\* The 'error' listener bindVideoEvents registers on the element
OnVideoError(w, e) ==
  IF w.eng[e].hls = 0
  THEN LET w1 == tryFallback(w, e, 0)
       IN IF w1.res = "fallback" THEN w1
          ELSE Emit(w1, e, "error", [message |-> "Video playback error", fatal |-> TRUE])
  ELSE w

\* Player.saveResumePosition
saveResumePosition(w, e) ==
  LET p == w.eng[e] IN
  IF ~p.cfgResume \/ p.currentRef = <<>> \/ p.video = None THEN w
  ELSE LET time == w.dom[p.video].currentTime
       IN IF time < OneSecond THEN w
          ELSE [w EXCEPT !.store[p.currentRef] = String(time)]

\* Player.restoreResumePosition
restoreResumePosition(w, e) ==
  LET p == w.eng[e] IN
  IF ~p.cfgResume \/ p.currentRef = <<>> \/ p.video = None THEN w
  ELSE LET saved == w.store[p.currentRef]
       IN IF saved = NoItem \/ saved.text = "" THEN w
          ELSE LET time == parseFloat(saved)
                   duration == w.dom[p.video].duration
               IN IF time = NaN \/ time < OneSecond THEN w
                  ELSE IF duration # NaN /\ duration # 0 /\ time > duration - ThreeSeconds THEN w
                  ELSE Emit([w EXCEPT !.dom[p.video].currentTime = time],
                            e, "resume", [time |-> time, ref |-> p.currentRef])

\* the listeners without the test of _ready
OnLoadedEveryTime(w, e, el, kind) ==
  LET vw == w.dom[el].vw
      vh == w.dom[el].vh
      payload == [isVertical |-> vh > vw, width |-> vw, height |-> vh]
  IN IF vw # 0 /\ vh # 0
     THEN LET w1 == [w EXCEPT !.eng[e].ready = TRUE]
              w2 == IF kind = "loadedmetadata" THEN restoreResumePosition(w1, e) ELSE w1
          IN Emit(Emit(Emit(w2, e, "ready", payload), e, "resize", payload),
                  e, "loading", [on |-> FALSE])
     ELSE w

\* The 'loadedmetadata' and 'loadeddata' listeners of bindVideoEvents; only
\* the first calls restoreResumePosition
OnLoaded(w, e, el, kind) ==
  LET vw == w.dom[el].vw
      vh == w.dom[el].vh
      payload == [isVertical |-> vh > vw, width |-> vw, height |-> vh]
  IN IF ~w.eng[e].ready /\ vw # 0 /\ vh # 0
     THEN LET w1 == [w EXCEPT !.eng[e].ready = TRUE]
              w2 == IF kind = "loadedmetadata" THEN restoreResumePosition(w1, e) ELSE w1
          IN Emit(Emit(Emit(w2, e, "ready", payload), e, "resize", payload),
                  e, "loading", [on |-> FALSE])
     ELSE w

\* The 'timeupdate' listener of bindVideoEvents
OnTimeUpdate(w, e, el) ==
  LET w1 == Emit(w, e, "timeupdate", [currentTime |-> w.dom[el].currentTime,
                                      duration |-> IF w.dom[el].duration = NaN THEN 0
                                                   ELSE w.dom[el].duration,
                                      paused |-> w.dom[el].paused])
      p == w1.eng[e]
  IN IF p.cfgResume /\ p.currentRef # <<>> /\ ~p.resumeSaveTimer
     THEN [w1 EXCEPT !.eng[e].resumeSaveTimer = TRUE]
     ELSE w1

\* The callback of the timer the 'timeupdate' listener sets
OnResumeSaveTimer(w, e) ==
  saveResumePosition([w EXCEPT !.eng[e].resumeSaveTimer = FALSE], e)

\* Player.getState: the fields the properties read. isVertical is <<>> for
\* null and <<b>> for the boolean b.
getState(p, d) ==
  LET v == p.video IN
  [paused |-> IF v = None THEN TRUE ELSE d[v].paused,
   ready |-> p.ready,
   isVertical |-> IF v = None THEN <<>>
                  ELSE IF d[v].vh > d[v].vw THEN <<TRUE>>
                  ELSE IF d[v].vw > 0 THEN <<FALSE>> ELSE <<>>,
   videoWidth |-> IF v = None THEN 0 ELSE d[v].vw,
   videoHeight |-> IF v = None THEN 0 ELSE d[v].vh]

---------------------------------------------------------------------------
(* Player: playback controls *)

\* Player.play; allowed is the element's autoplay policy for this call
PlayerPlay(w, e, allowed) ==
  LET v == w.eng[e].video IN
  IF v = None THEN w
  ELSE IF allowed THEN [w EXCEPT !.dom[v].paused = FALSE] ELSE w

\* pause that acts only on an engine whose media is ready
PlayerPauseReadyOnly(w, e) ==
  LET v == w.eng[e].video IN
  IF v = None \/ ~w.eng[e].ready THEN w ELSE [w EXCEPT !.dom[v].paused = TRUE]

\* Player.pause
PlayerPause(w, e) ==
  LET v == w.eng[e].video IN
  IF v = None THEN w ELSE [w EXCEPT !.dom[v].paused = TRUE]

\* Player.setMuted
PlayerSetMuted(w, e, muted) ==
  LET v == w.eng[e].video IN
  IF v = None THEN w ELSE [w EXCEPT !.dom[v].muted = muted]

\* setVolume that bounds the volume from above only
PlayerSetVolumeUpperOnly(w, e, volume) ==
  LET v == w.eng[e].video IN
  IF v = None THEN w ELSE [w EXCEPT !.dom[v].volume = MathMin(FullVolume, volume)]

\* Player.setVolume
PlayerSetVolume(w, e, volume) ==
  LET v == w.eng[e].video IN
  IF v = None THEN w
  ELSE [w EXCEPT !.dom[v].volume = MathMax(0, MathMin(FullVolume, volume))]

\* Player.setLoop
PlayerSetLoop(w, e, loop) ==
  LET v == w.eng[e].video
      w1 == [w EXCEPT !.eng[e].cfgLoop = loop]
  IN IF v = None THEN w1 ELSE [w1 EXCEPT !.dom[v].loop = loop]

\* Player.getState().paused
IsPaused(e) == IF engines[e].video = None THEN TRUE ELSE dom[engines[e].video].paused

---------------------------------------------------------------------------
(* Steps of one engine: the calls of its user and the callbacks the        *)
(* runtime delivers to it                                                  *)

Commit(w, op) ==
  /\ engines' = w.eng
  /\ dom' = w.dom
  /\ storage' = w.store
  /\ emitted' = w.out
  /\ lastOp' = [op EXCEPT !.res = w.res]

Op(name, e, n) == [op |-> name, e |-> e, n |-> n, res |-> "ok"]

Attach(e, el) ==
  /\ Commit(PlayerAttach(World, e, el), Op("attach", e, 0))
  /\ UNCHANGED <<platform, network, pending, players, activeId>>

Detach(e) ==
  /\ Commit(PlayerDetach(World, e), Op("detach", e, 0))
  /\ UNCHANGED <<platform, network, pending, players, activeId>>

Destroy(e) ==
  /\ Commit(PlayerDestroy(World, e), Op("destroy", e, 0))
  /\ UNCHANGED <<platform, network, pending, players, activeId>>

On(e, ev, h) ==
  /\ Fn(h) \notin Range(engines[e].listeners[ev])
  /\ Commit(PlayerOn(World, e, ev, h), Op("on", e, 0))
  /\ UNCHANGED <<platform, network, pending, players, activeId>>

Off(e, ev, h) ==
  /\ Fn(h) \in Range(engines[e].listeners[ev])
  /\ Commit(PlayerOff(World, e, ev, h), Op("off", e, 0))
  /\ UNCHANGED <<platform, network, pending, players, activeId>>

\* A load() call on engine e makes every earlier load of e a superseded one
Supersede(e) ==
  [p \in DOMAIN pending |->
     IF p.e # e THEN pending[p]
     ELSE IF p.cur THEN 0
     ELSE pending[p] + pending[[p EXCEPT !.cur = TRUE]]]

InFlightBound(e) == \A p \in DOMAIN pending : Supersede(e)[p] <= MaxSuperseded

LoadDirect(e, source) ==
  /\ InFlightBound(e)
  /\ pending' = Supersede(e)
  /\ Commit(PlayerLoadSource(World, e, source), Op("load", e, 0))
  /\ UNCHANGED <<platform, network, players, activeId>>

\* load(ref): the call runs to its await and leaves a resolution in flight
LoadRef(e, ref) ==
  /\ InFlightBound(e)
  /\ LET w == PlayerLoadRef(World, e, ref)
     IN /\ Commit(w, Op("loadRef", e, 0))
        /\ pending' = IF w.res = "pending"
                      THEN [Supersede(e) EXCEPT ![[e |-> e, author |-> ref.parts[1],
                                                   permlink |-> ref.parts[2], cur |-> TRUE]] = 1]
                      ELSE Supersede(e)
  /\ UNCHANGED <<platform, network, players, activeId>>

\* api.fetchSource resolves: load continues after its await.  The step
\* records whether the load was still the engine's latest (n = 1) or not
ResolveOk(p) ==
  /\ pending[p] > 0
  /\ Catalog(p.author, p.permlink).videoUrl # None
  /\ pending' = [pending EXCEPT ![p] = @ - 1]
  /\ Commit(LoadApply(World, p.e, metadataToSource(Catalog(p.author, p.permlink))),
            Op("resolve", p.e, IF p.cur THEN 1 ELSE 0))
  /\ UNCHANGED <<platform, network, players, activeId>>

\* api.fetchSource rejects: load rejects with the same error
ResolveFail(p) ==
  /\ pending[p] > 0
  /\ pending' = [pending EXCEPT ![p] = @ - 1]
  /\ Commit(Throw(World, "NetworkError"), Op("reject", p.e, IF p.cur THEN 1 ELSE 0))
  /\ UNCHANGED <<platform, network, players, activeId>>

\* hls.js reports an error on a live instance of the engine
HlsError(e, h, fatal) ==
  /\ h \in {i.id : i \in engines[e].hlsInst}
  /\ Commit(OnHlsError(World, e, h, fatal), Op(IF fatal THEN "hlsFatal" ELSE "hlsError", e, 0))
  /\ UNCHANGED <<platform, network, pending, players, activeId>>

\* the element dispatches 'error' to the listener the engine registered
VideoError(e, el) ==
  /\ el \in engines[e].cleanupFns
  /\ Commit(OnVideoError(World, e), Op("videoError", e, engines[e].hls))
  /\ UNCHANGED <<platform, network, pending, players, activeId>>

DimPairs == {<<0, 0>>, <<2, 1>>, <<1, 2>>}

\* the element dispatches 'loadedmetadata' or 'loadeddata'; the media's
\* dimensions are d unless the element already knows them
Loaded(e, el, kind, d) ==
  /\ el \in engines[e].cleanupFns
  /\ dom[el].src # None
  /\ LET w0 == World
         w1 == IF w0.dom[el].vw = 0 /\ w0.dom[el].vh = 0
               THEN [w0 EXCEPT !.dom[el].vw = d[1], !.dom[el].vh = d[2]]
               ELSE w0
     IN Commit(OnLoaded(w1, e, el, kind), Op(kind, e, 0))
  /\ UNCHANGED <<platform, network, pending, players, activeId>>

Play(e, allowed) ==
  /\ Commit(PlayerPlay(World, e, allowed), Op("play", e, 0))
  /\ UNCHANGED <<platform, network, pending, players, activeId>>

Pause(e) ==
  /\ Commit(PlayerPause(World, e), Op("pause", e, 0))
  /\ UNCHANGED <<platform, network, pending, players, activeId>>

SetMuted(e, muted) ==
  /\ Commit(PlayerSetMuted(World, e, muted), Op("setMuted", e, 0))
  /\ UNCHANGED <<platform, network, pending, players, activeId>>

SetLoop(e, loop) ==
  /\ Commit(PlayerSetLoop(World, e, loop), Op("setLoop", e, 0))
  /\ UNCHANGED <<platform, network, pending, players, activeId>>

SetVolume(e, volume) ==
  /\ Commit(PlayerSetVolume(World, e, volume), Op("setVolume", e, volume))
  /\ UNCHANGED <<platform, network, pending, players, activeId>>

---------------------------------------------------------------------------
(* One engine, constructed by its user, and two elements *)

Init ==
  /\ platform \in Platforms
  /\ engines = <<NewPlayer>>
  /\ dom = [s \in Surfaces |-> NewElement]
  /\ pending = [p \in Promises |-> 0]
  /\ players = <<>>
  /\ activeId = None
  /\ storage = NoItems
  /\ network = [answers |-> Online, requests |-> <<>>]
  /\ emitted = <<>>
  /\ lastOp = Op("new", 1, 0)

Next ==
  \/ \E el \in Surfaces : Attach(1, el)
  \/ Detach(1)
  \/ Destroy(1)
  \/ \E ev \in SubscribedEvents, h \in Handlers : On(1, ev, h)
  \/ \E ev \in SubscribedEvents, h \in Handlers : Off(1, ev, h)
  \/ \E source \in DirectSources : LoadDirect(1, source)
  \/ \E ref \in RefInputs : LoadRef(1, ref)
  \/ \E p \in Promises : ResolveOk(p)
  \/ \E p \in Promises : ResolveFail(p)
  \/ \E h \in 1..3, fatal \in BOOLEAN : HlsError(1, h, fatal)
  \/ \E el \in Surfaces : VideoError(1, el)
  \/ \E el \in Surfaces, kind \in {"loadedmetadata", "loadeddata"}, d \in DimPairs :
       Loaded(1, el, kind, d)

Spec == Init /\ [][Next]_vars

---------------------------------------------------------------------------
(* One engine and its playback controls *)

NextControls ==
  \/ \E el \in Surfaces : Attach(1, el)
  \/ Detach(1)
  \/ Destroy(1)
  \/ \E allowed \in BOOLEAN : Play(1, allowed)
  \/ Pause(1)
  \/ \E muted \in BOOLEAN : SetMuted(1, muted)
  \/ \E loop \in BOOLEAN : SetLoop(1, loop)
  \/ \E volume \in Volumes : SetVolume(1, volume)

SpecControls == Init /\ [][NextControls]_vars

---------------------------------------------------------------------------
(* One engine that is attached, loaded, failed over and re-attached, with  *)
(* autopause switched on and off                                           *)

EnableAutopause(e) ==
  /\ Commit(PlayerEnableAutopause(World, e), Op("enableAutopause", e, 0))
  /\ UNCHANGED <<platform, network, pending, players, activeId>>

DisableAutopause(e) ==
  /\ Commit(PlayerDisableAutopause(World, e), Op("disableAutopause", e, 0))
  /\ UNCHANGED <<platform, network, pending, players, activeId>>

NextAttach ==
  \/ \E el \in Surfaces : Attach(1, el)
  \/ Detach(1)
  \/ LoadDirect(1, SrcA)
  \/ \E h \in 1..3 : HlsError(1, h, TRUE)
  \/ \E el \in Surfaces : VideoError(1, el)
  \/ \E el \in Surfaces, d \in DimPairs : Loaded(1, el, "loadedmetadata", d)
  \/ EnableAutopause(1)
  \/ DisableAutopause(1)
  \/ Destroy(1)

SpecAttach == Init /\ [][NextAttach]_vars

---------------------------------------------------------------------------
(* One engine with resume enabled, on element s1, whose media plays        *)

\* the element dispatches 'timeupdate'
TimeUpdate(e, el) ==
  /\ el \in engines[e].cleanupFns
  /\ dom[el].src # None
  /\ Commit(OnTimeUpdate(World, e, el), Op("timeupdate", e, 0))
  /\ UNCHANGED <<platform, network, pending, players, activeId>>

\* the timer set 3 seconds earlier fires
ResumeSaveTimer(e) ==
  /\ engines[e].resumeSaveTimer
  /\ Commit(OnResumeSaveTimer(World, e), Op("resumeSaveTimer", e, 0))
  /\ UNCHANGED <<platform, network, pending, players, activeId>>

MediaTimes == {4, 10, 380, 400}
MediaDurations == {410, 1200}

\* playback or a seek moves the element's position
MediaTime(el, t) ==
  /\ dom[el].src # None
  /\ dom[el].currentTime # t
  /\ Commit([World EXCEPT !.dom[el].currentTime = t], Op("mediaTime", 0, 0))
  /\ UNCHANGED <<platform, network, pending, players, activeId>>

\* the element learns the duration of its media
MediaDuration(el, duration) ==
  /\ dom[el].src # None
  /\ dom[el].duration = NaN
  /\ Commit([World EXCEPT !.dom[el].duration = duration], Op("mediaDuration", 0, 0))
  /\ UNCHANGED <<platform, network, pending, players, activeId>>

InitResume ==
  /\ platform \in Platforms
  /\ engines = <<[NewPlayer EXCEPT !.cfgResume = TRUE]>>
  /\ dom = [s \in Surfaces |-> NewElement]
  /\ pending = [p \in Promises |-> 0]
  /\ players = <<>>
  /\ activeId = None
  /\ storage \in [ResumeKeys -> {NoItem} \cup StoredTexts]
  /\ network = [answers |-> Online, requests |-> <<>>]
  /\ emitted = <<>>
  /\ lastOp = Op("new", 1, 0)

NextResume ==
  \/ Attach(1, "s1")
  \/ Detach(1)
  \/ LoadDirect(1, SrcB)
  \/ \E ref \in ValidRefs : LoadRef(1, ref)
  \/ \E p \in Promises : ResolveOk(p)
  \/ \E kind \in {"loadedmetadata", "loadeddata"} : Loaded(1, "s1", kind, <<2, 1>>)
  \/ TimeUpdate(1, "s1")
  \/ ResumeSaveTimer(1)
  \/ \E t \in MediaTimes : MediaTime("s1", t)
  \/ \E duration \in MediaDurations : MediaDuration("s1", duration)

SpecResume == InitResume /\ [][NextResume]_vars

---------------------------------------------------------------------------
(* One engine whose events have handlers that return, throw or load        *)

\* The event the user subscribes to
EmitterEvents == {"loading"}

\* on(event, h) with any handler; a handler that loads on every 'loading'
\* event never returns, so hReload is subscribed with once only
Subscribe(e, ev, h) ==
  /\ Len(engines[e].listeners[ev]) < MaxListeners
  /\ On(e, ev, h)

\* once(event, h)
Once(e, ev, h) ==
  /\ Len(engines[e].listeners[ev]) < MaxListeners
  /\ Commit(PlayerOnce(World, e, ev, h), Op("once", e, 0))
  /\ UNCHANGED <<platform, network, pending, players, activeId>>

\* The user calls the function that on or once returned for cb
Unsubscribe(e, ev, cb) ==
  /\ cb \in Range(engines[e].listeners[ev])
  /\ Commit(Unsub(World, e, ev, cb), Op("unsub", e, 0))
  /\ UNCHANGED <<platform, network, pending, players, activeId>>

NextEmitter ==
  \/ Attach(1, "s1")
  \/ Detach(1)
  \/ LoadDirect(1, SrcA)
  \/ \E kind \in {"loadedmetadata", "loadeddata"} : Loaded(1, "s1", kind, <<2, 1>>)
  \/ \E ev \in EmitterEvents, h \in {"h1", "hThrow"} : Subscribe(1, ev, h)
  \/ \E ev \in EmitterEvents, h \in Callbacks : Once(1, ev, h)
  \/ \E ev \in EmitterEvents, h \in Callbacks, k \in 0..MaxListeners :
       Unsubscribe(1, ev, [fn |-> h, once |-> k])

\* The emitter works the same on every platform: one with hls.js
InitEmitter ==
  /\ Init
  /\ platform.supportsHlsJs /\ ~platform.supportsNativeHLS

SpecEmitter == InitEmitter /\ [][NextEmitter]_vars

---------------------------------------------------------------------------
(* metadataToSource on the metadata a resolver may answer with             *)

\* Metadata whose fallback fields are null, the primary URL, or one of two
\* other URLs
Metadata == [videoUrl : {"a0"}, videoUrlFallback1 : {None, "a0", "a1", "a2"},
             videoUrlFallback2 : {None, "a0", "a1", "a2"},
             videoUrlFallback3 : {None, "a0", "a1", "a2"}, thumbnail : {None}]

\* The resolver has answered with meta
InitSource ==
  /\ platform \in {[supportsHlsJs |-> TRUE, supportsNativeHLS |-> FALSE]}
  /\ engines = <<>>
  /\ dom = [s \in Surfaces |-> NewElement]
  /\ pending = [p \in Promises |-> 0]
  /\ players = <<>>
  /\ activeId = None
  /\ storage = NoItems
  /\ network = [answers |-> Online, requests |-> <<>>]
  /\ emitted = <<>>
  /\ lastOp \in [op : {"fetchVideoMetadata"}, meta : Metadata, ret : {None}]

\* metadataToSource(meta)
ToSource ==
  /\ lastOp.op = "fetchVideoMetadata"
  /\ lastOp' = [op |-> "metadataToSource", meta |-> lastOp.meta,
                ret |-> metadataToSource(lastOp.meta)]
  /\ UNCHANGED <<platform, engines, dom, pending, players, activeId, storage,
                 network, emitted>>

NextSource == ToSource

SpecSource == InitSource /\ [][NextSource]_vars

---------------------------------------------------------------------------
(* detectPlatform in a runtime that changes between the calls.  Here the   *)
(* variable platform is the module's state: cached (<<>> is null, <<o>>    *)
(* the object o), the runtime the next probe would see, and the number of  *)
(* probes and of calls made                                                *)

\* What a probe can see: whether navigator and document exist, what the
\* user agent matches, the MozAppearance CSS property, canPlayType and
\* MediaSource
Runtimes == [browser : BOOLEAN, uaIOS : BOOLEAN, uaSafari : BOOLEAN, isFirefox : BOOLEAN,
             canPlayType : BOOLEAN, mediaSource : BOOLEAN]

\* The probe of detectPlatform: the object it builds, number id
Probe(rt, id) ==
  IF ~rt.browser
  THEN [id |-> id, isIOS |-> FALSE, isSafari |-> FALSE, supportsNativeHLS |-> FALSE,
        supportsMSE |-> FALSE, supportsHlsJs |-> FALSE]
  ELSE [id |-> id, isIOS |-> ~rt.isFirefox /\ rt.uaIOS,
        isSafari |-> ~rt.isFirefox /\ rt.uaSafari,
        supportsNativeHLS |-> rt.canPlayType,
        supportsMSE |-> rt.mediaSource, supportsHlsJs |-> rt.mediaSource]

\* detectPlatform that probes on every call
detectPlatformNoCache(m) ==
  [m EXCEPT !.cached = <<Probe(m.runtime, m.probes + 1)>>, !.probes = @ + 1]

\* detectPlatform: the module state after the call; the call returns cached
detectPlatform(m) ==
  IF m.cached # <<>> THEN m
  ELSE [m EXCEPT !.cached = <<Probe(m.runtime, m.probes + 1)>>, !.probes = @ + 1]

DetectPlatform ==
  /\ platform.calls < MaxCalls
  /\ platform' = [detectPlatform(platform) EXCEPT !.calls = @ + 1]
  /\ lastOp' = [op |-> "detectPlatform", ret |-> platform'.cached[1]]
  /\ UNCHANGED <<engines, dom, pending, players, activeId, storage, network, emitted>>

\* the user agent is switched, a polyfill is installed, ...
RuntimeChange(rt) ==
  /\ platform.runtime # rt
  /\ platform' = [platform EXCEPT !.runtime = rt]
  /\ lastOp' = [op |-> "runtimeChange", ret |-> None]
  /\ UNCHANGED <<engines, dom, pending, players, activeId, storage, network, emitted>>

InitPlatform ==
  /\ platform \in [cached : {<<>>}, runtime : Runtimes, probes : {0}, calls : {0}]
  /\ engines = <<>>
  /\ dom = [s \in Surfaces |-> NewElement]
  /\ pending = [p \in Promises |-> 0]
  /\ players = <<>>
  /\ activeId = None
  /\ storage = NoItems
  /\ network = [answers |-> Online, requests |-> <<>>]
  /\ emitted = <<>>
  /\ lastOp = [op |-> "new", ret |-> None]

NextPlatform ==
  \/ DetectPlatform
  \/ \E rt \in Runtimes : RuntimeChange(rt)

SpecPlatform == InitPlatform /\ [][NextPlatform]_vars

---------------------------------------------------------------------------
(* Strategy selection on every platform: engine 1 is a Player of part_004  *)
(* on element s1, engine 2 a Player of src/core/player.ts on element s2    *)

LoadDirectCore(e, source) ==
  /\ Commit(PlayerLoadSourceCore(World, e, source), Op("loadCore", e, 0))
  /\ UNCHANGED <<platform, network, pending, players, activeId>>

InitStrategy ==
  /\ platform \in PlatformInfos
  /\ engines = <<NewPlayer, NewPlayer>>
  /\ dom = [s \in Surfaces |-> NewElement]
  /\ pending = [p \in Promises |-> 0]
  /\ players = <<>>
  /\ activeId = None
  /\ storage = NoItems
  /\ network = [answers |-> Online, requests |-> <<>>]
  /\ emitted = <<>>
  /\ lastOp = Op("new", 1, 0)

NextStrategy ==
  \/ Attach(1, "s1")
  \/ Attach(2, "s2")
  \/ \E e \in {1, 2} : Detach(e)
  \/ \E source \in DirectSources : LoadDirect(1, source)
  \/ \E source \in DirectSources : LoadDirectCore(2, source)

SpecStrategy == InitStrategy /\ [][NextStrategy]_vars

---------------------------------------------------------------------------
(* PlayerPool *)

NoSource == [url |-> None, fallbacks |-> <<>>, poster |-> None]

\* Map.get on the pool's players; 0 is undefined
PoolGet(pl, id) ==
  IF \E i \in 1..Len(pl) : pl[i].id = id
  THEN pl[CHOOSE i \in 1..Len(pl) : pl[i].id = id].p
  ELSE 0

\* Map.set: an existing key keeps its place, a new key goes last
MapSet(pl, id, p) ==
  IF \E i \in 1..Len(pl) : pl[i].id = id
  THEN [i \in 1..Len(pl) |-> IF pl[i].id = id THEN [id |-> id, p |-> p] ELSE pl[i]]
  ELSE Append(pl, [id |-> id, p |-> p])

\* Map.delete
MapDelete(pl, id) == SelectSeq(pl, LAMBDA entry : entry.id # id)

\* for (... of this.players): Visit is applied to the entries in Map order
ForEachPlayer(w, pl, Visit(_, _)) ==
  LET after[i \in 0..Len(pl)] == IF i = 0 THEN w ELSE Visit(after[i - 1], pl[i])
  IN after[Len(pl)]

\* PlayerPool.add; the engine constructed, when one is, is the next in engines
PoolAdd(id, el, source) ==
  LET cur == PoolGet(players, id) IN
  IF cur # 0 /\ engines[cur].video = el
  THEN /\ players' = players
       /\ Commit(IF source.url # None THEN PlayerLoadSource(World, cur, source) ELSE World,
                 Op("add", cur, 0))
  ELSE /\ Len(engines) < MaxEngines
       /\ LET new == Len(engines) + 1
              w1 == IF cur # 0 THEN PlayerDestroy(World, cur) ELSE World
              w2 == [w1 EXCEPT !.eng = Append(@, NewPlayer)]
              w3 == PlayerAttach(w2, new, el)
              w4 == IF source.url # None THEN PlayerLoadSource(w3, new, source) ELSE w3
          IN /\ players' = MapSet(players, id, new)
             /\ Commit(w4, Op("add", new, 0))

Add(id, el, source) ==
  /\ PoolAdd(id, el, source)
  /\ UNCHANGED <<platform, network, pending, activeId>>

\* remove that forgets the entry without destroying its engine
RemoveNoDestroy(id) ==
  /\ Commit(World, Op("remove", PoolGet(players, id), 0))
  /\ players' = MapDelete(players, id)
  /\ activeId' = IF activeId = id THEN None ELSE activeId
  /\ UNCHANGED <<platform, network, pending>>

\* PlayerPool.remove
Remove(id) ==
  LET cur == PoolGet(players, id) IN
  /\ IF cur # 0
     THEN /\ Commit(PlayerDestroy(World, cur), Op("remove", cur, 0))
          /\ players' = MapDelete(players, id)
          /\ activeId' = IF activeId = id THEN None ELSE activeId
     ELSE /\ Commit(World, Op("remove", 0, 0))
          /\ UNCHANGED <<players, activeId>>
  /\ UNCHANGED <<platform, network, pending>>

\* PlayerPool.activate; allowed is the autoplay policy's answer to play()
Activate(id, allowed) ==
  LET Visit(w, entry) == IF entry.id = id THEN PlayerPlay(w, entry.p, allowed)
                         ELSE PlayerPause(w, entry.p)
  IN /\ activeId' = id
     /\ Commit(ForEachPlayer(World, players, Visit), Op("activate", PoolGet(players, id), 0))
     /\ UNCHANGED <<platform, network, pending, players>>

\* PlayerPool.pauseAll
PauseAll ==
  LET Visit(w, entry) == PlayerPause(w, entry.p)
  IN /\ Commit(ForEachPlayer(World, players, Visit), Op("pauseAll", 0, 0))
     /\ UNCHANGED <<platform, network, pending, players, activeId>>

\* PlayerPool.setAllMuted
SetAllMuted(muted) ==
  LET Visit(w, entry) == PlayerSetMuted(w, entry.p, muted)
  IN /\ Commit(ForEachPlayer(World, players, Visit), Op("setAllMuted", 0, 0))
     /\ UNCHANGED <<platform, network, pending, players, activeId>>

\* PlayerPool.setAllLoop
SetAllLoop(loop) ==
  LET Visit(w, entry) == PlayerSetLoop(w, entry.p, loop)
  IN /\ Commit(ForEachPlayer(World, players, Visit), Op("setAllLoop", 0, 0))
     /\ UNCHANGED <<platform, network, pending, players, activeId>>

\* PlayerPool.retainOnly
RetainOnly(keep) ==
  LET Visit(w, entry) == IF entry.id \notin keep THEN PlayerDestroy(w, entry.p) ELSE w
  IN /\ Commit(ForEachPlayer(World, players, Visit), Op("retainOnly", 0, 0))
     /\ players' = SelectSeq(players, LAMBDA entry : entry.id \in keep)
     /\ activeId' = IF activeId # None /\ PoolGet(players, activeId) # 0 /\ activeId \notin keep
                    THEN None ELSE activeId
     /\ UNCHANGED <<platform, network, pending>>

\* PlayerPool.destroy
PoolDestroy ==
  LET Visit(w, entry) == PlayerDestroy(w, entry.p)
  IN /\ Commit(ForEachPlayer(World, players, Visit), Op("poolDestroy", 0, 0))
     /\ players' = <<>>
     /\ activeId' = None
     /\ UNCHANGED <<platform, network, pending>>

\* pool.get(id).play() and pool.get(id).pause()
GetPlay(id, allowed) ==
  /\ PoolGet(players, id) # 0
  /\ Play(PoolGet(players, id), allowed)

GetPause(id) ==
  /\ PoolGet(players, id) # 0
  /\ Pause(PoolGet(players, id))

\* A pool, whose engines its user also reaches through pool.get(id)
InitPool ==
  /\ platform \in Platforms
  /\ engines = <<>>
  /\ dom = [s \in Surfaces |-> NewElement]
  /\ pending = [p \in Promises |-> 0]
  /\ players = <<>>
  /\ activeId = None
  /\ storage = NoItems
  /\ network = [answers |-> Online, requests |-> <<>>]
  /\ emitted = <<>>
  /\ lastOp = Op("new", 0, 0)

NextPool ==
  \/ \E id \in PoolIds, el \in Surfaces, source \in {SrcA, NoSource} :
       Add(id, el, source)
  \/ \E id \in PoolIds : Remove(id)
  \/ \E id \in PoolIds, allowed \in BOOLEAN : Activate(id, allowed)
  \/ PauseAll
  \/ \E keep \in SUBSET PoolIds : RetainOnly(keep)
  \/ PoolDestroy
  \/ \E id \in PoolIds, allowed \in BOOLEAN : GetPlay(id, allowed)
  \/ \E id \in PoolIds : GetPause(id)

SpecPool == InitPool /\ [][NextPool]_vars

---------------------------------------------------------------------------
(* ThreeSpeakApi and the pool's prefetch calls.  A call runs in a record    *)
(* of the network, how the call ended (res) and what it returned (ret)     *)

ApiCall == [net |-> [network EXCEPT !.requests = <<>>], res |-> "ok", ret |-> None]

\* fetch(url): the request is made
Fetch(a, what) == [a EXCEPT !.net.requests = Append(@, what)]

\* ThreeSpeakApi.fetchVideoMetadata
fetchVideoMetadata(a, author, permlink) ==
  LET a1 == Fetch(a, "embed")
      embed == a.net.answers.embed
  IN IF embed = "throw" THEN [a1 EXCEPT !.res = "NetworkError"]
     ELSE IF embed = "ok" THEN [a1 EXCEPT !.ret = Catalog(author, permlink)]
     ELSE LET a2 == Fetch(a1, "watch")
              watch == a.net.answers.watch
          IN IF watch = "throw" THEN [a2 EXCEPT !.res = "NetworkError"]
             ELSE IF watch = "http404" THEN [a2 EXCEPT !.res = "HttpError"]
             ELSE IF watch = "okError" THEN [a2 EXCEPT !.res = "ApiError"]
             ELSE [a2 EXCEPT !.ret = Catalog(author, permlink)]

\* ThreeSpeakApi.fetchSource
fetchSource(a, author, permlink) ==
  LET a1 == fetchVideoMetadata(a, author, permlink)
  IN IF a1.res # "ok" THEN a1 ELSE [a1 EXCEPT !.ret = metadataToSource(a1.ret)]

\* ThreeSpeakApi.prefetchFirstSegment: a rejection of the fetch is caught
prefetchFirstSegment(a) == Fetch(a, "segment")

\* ThreeSpeakApi.prefetchManifest: whatever is thrown inside is caught
prefetchManifest(a, hlsUrl) ==
  LET a1 == Fetch(a, hlsUrl)
      manifest == a.net.answers.manifest
  IN IF manifest = "throw" THEN a1
     ELSE IF manifest = "master"
     THEN LET a2 == Fetch(a1, "variant")
          IN IF a.net.answers.variant = "throw" THEN a2 ELSE prefetchFirstSegment(a2)
     ELSE prefetchFirstSegment(a1)

\* PlayerPool.prefetch
prefetch(a, hlsUrl) == prefetchManifest(a, hlsUrl)

\* PlayerPool.prefetchByRef
prefetchByRef(a, author, permlink) ==
  LET a1 == fetchSource(a, author, permlink)
  IN IF a1.res # "ok" THEN a1
     ELSE prefetchManifest([a1 EXCEPT !.ret = None], a1.ret.url)

ApiCommit(a, op) ==
  /\ network' = a.net
  /\ lastOp' = [op EXCEPT !.res = a.res]
  /\ UNCHANGED <<platform, engines, dom, pending, players, activeId, storage, emitted>>

Prefetch(hlsUrl) == ApiCommit(prefetch(ApiCall, hlsUrl), Op("prefetch", 0, 0))

PrefetchByRef(author, permlink) ==
  ApiCommit(prefetchByRef(ApiCall, author, permlink), Op("prefetchByRef", 0, 0))

\* A pool whose user prefetches, with servers that answer in every way
InitPrefetch ==
  /\ platform \in Platforms
  /\ engines = <<>>
  /\ dom = [s \in Surfaces |-> NewElement]
  /\ pending = [p \in Promises |-> 0]
  /\ players = <<>>
  /\ activeId = None
  /\ storage = NoItems
  /\ network \in [answers : Answers, requests : {<<>>}]
  /\ emitted = <<>>
  /\ lastOp = Op("new", 0, 0)

NextPrefetch ==
  \/ \E hlsUrl \in {"a0", "b0"} : Prefetch(hlsUrl)
  \/ \E r \in ValidRefs : PrefetchByRef(r.parts[1], r.parts[2])

SpecPrefetch == InitPrefetch /\ [][NextPrefetch]_vars

---------------------------------------------------------------------------
(* Properties *)

\* The URL the engine's active playback path points at: the one its hls.js
\* instance has loaded, else the element's src
ActiveSource(p, d) ==
  IF p.hls # 0 /\ \E i \in p.hlsInst : i.id = p.hls
  THEN (CHOOSE i \in p.hlsInst : i.id = p.hls).url
  ELSE IF p.video # None THEN d[p.video].src ELSE None

\* The steps that apply a load's source, and those that detach
LoadSteps == {"load", "resolve", "add"}
DetachSteps == {"detach", "attach", "destroy", "remove", "retainOnly", "poolDestroy"}

\* C1: after PlayerPool.activate(id) returns, at most one entry of the pool
\* is not paused, and an entry that is not paused is the one keyed id.
C1_ActivateExclusive ==
  lastOp.op = "activate" =>
    LET playing == {i \in 1..Len(players) : ~IsPaused(players[i].p)}
    IN /\ Cardinality(playing) <= 1
       /\ \A i \in playing : players[i].id = activeId

\* C2: the completion of a load(reference) that a later load call has
\* superseded does not set ready, does not change the fallback list or the
\* cursor, and does not change the active source.
C2_StaleCompletionIgnored ==
  [][(lastOp'.op = "resolve" /\ lastOp'.n = 0) =>
       /\ engines'[1].ready => engines[1].ready
       /\ engines'[1].fallbacks = engines[1].fallbacks
       /\ engines'[1].fallbackIndex = engines[1].fallbackIndex
       /\ ActiveSource(engines'[1], dom') = ActiveSource(engines[1], dom)]_vars

\* C3: while the resolution of the newest load is pending, ready is false
\* and the fallback cursor is 0.
C3_ResetBeforeResolution ==
  (\E p \in Promises : p.cur /\ pending[p] > 0) =>
    /\ ~engines[1].ready
    /\ engines[1].fallbackIndex = 0

\* C4: a detached or destroyed engine delivers no event to any subscriber.
C4_SilentAfterDetach ==
  engines[1].video = None =>
    \A i \in 1..Len(emitted) : emitted[i].to = <<>>

\* C5: a resolution that completes on a detached or destroyed engine
\* changes no engine state and touches no surface.
C5_DetachCancelsLoad ==
  [][(lastOp'.op = "resolve" /\ engines[1].video = None) =>
       /\ engines'[1] = engines[1]
       /\ dom' = dom]_vars

\* A fatal failure of the active path: a fatal hls.js error, or an element
\* error while no hls.js instance is attached
FatalFailure(op) == op.op = "hlsFatal" \/ (op.op = "videoError" /\ op.n = 0)

\* C6: the cursor is 0 when a load has applied its source and moves only in
\* a fatal failure, a load or a detach; a fatal failure with the cursor at
\* k - 1 < N emits exactly fallback{url: k-th URL of the list, index: k} and
\* moves the cursor to k, and a fatal failure with the cursor at N emits
\* exactly one fatal error and no fallback.  So N + j consecutive fatal
\* failures emit the fallbacks 1..N in list order and then j fatal errors.
C6_FallbackProtocol ==
  [][LET p == engines[1]
         q == engines'[1]
     IN /\ lastOp'.op \in {"load", "resolve"} => q.fallbackIndex = 0
        /\ FatalFailure(lastOp') =>
             /\ Len(emitted') = 1
             /\ q.fallbacks = p.fallbacks
             /\ IF p.fallbackIndex < Len(p.fallbacks)
                THEN /\ emitted'[1].ev = "fallback"
                     /\ emitted'[1].arg = [url |-> p.fallbacks[p.fallbackIndex + 1],
                                            index |-> p.fallbackIndex + 1]
                     /\ q.fallbackIndex = p.fallbackIndex + 1
                ELSE /\ emitted'[1].ev = "error"
                     /\ emitted'[1].arg.fatal
                     /\ q.fallbackIndex = p.fallbackIndex
        /\ ~FatalFailure(lastOp') =>
             /\ \A i \in 1..Len(emitted') : emitted'[i].ev # "fallback"
             /\ q.fallbackIndex # p.fallbackIndex =>
                  /\ q.fallbackIndex = 0
                  /\ lastOp'.op \in LoadSteps \cup DetachSteps]_vars

\* C6 witness: on the hls.js path, the failure after the two fallbacks of a
\* two-entry list has emitted the fatal error
C6_Exhausted ==
  /\ lastOp.op = "hlsFatal"
  /\ engines[1].fallbackIndex = 2
  /\ Len(engines[1].fallbacks) = 2
  /\ emitted[1].ev = "error"

\* C7 as stated: the cursor stays within the list, decreases only in a load
\* or a detach, and once it equals the list length only a load or a detach
\* changes the active source URL.
C7_ExhaustionTerminal ==
  /\ [](engines[1].fallbackIndex \in 0..Len(engines[1].fallbacks))
  /\ [][/\ engines'[1].fallbackIndex < engines[1].fallbackIndex =>
              lastOp'.op \in LoadSteps \cup DetachSteps
        /\ (/\ engines[1].fallbackIndex = Len(engines[1].fallbacks)
            /\ ActiveSource(engines'[1], dom') # ActiveSource(engines[1], dom)) =>
              lastOp'.op \in LoadSteps \cup DetachSteps]_vars

\* C7 amended: as C7, except that a fatal hls.js error at exhaustion tears
\* the instance down, which leaves the engine without an active source; no
\* step other than a load or a detach points the active path at another URL.
C7_ExhaustionTerminalAmended ==
  /\ [](engines[1].fallbackIndex \in 0..Len(engines[1].fallbacks))
  /\ [][/\ engines'[1].fallbackIndex < engines[1].fallbackIndex =>
              lastOp'.op \in LoadSteps \cup DetachSteps
        /\ (/\ engines[1].fallbackIndex = Len(engines[1].fallbacks)
            /\ ActiveSource(engines'[1], dom') # ActiveSource(engines[1], dom)) =>
              \/ lastOp'.op \in LoadSteps \cup DetachSteps
              \/ /\ lastOp'.op = "hlsFatal"
                 /\ ActiveSource(engines'[1], dom') = None
                 /\ engines'[1].hlsInst = {}]_vars

\* C7 witness: a failure arrives after the cursor has reached the end of a
\* two-entry list, and the native path keeps its URL
C7_FailureAfterExhaustion ==
  /\ lastOp.op = "videoError"
  /\ lastOp.n = 0
  /\ engines[1].fallbackIndex = 2
  /\ emitted[1].ev = "error"
  /\ ActiveSource(engines[1], dom) = engines[1].fallbacks[2]

C9_DestroyedHoldsNothing ==
  engines[1].destroyed =>
    /\ engines[1].video = None
    /\ engines[1].hls = 0
    /\ engines[1].hlsInst = {}
    /\ \A ev \in EventNames : engines[1].listeners[ev] = <<>>

\* C10: on a destroyed engine every call of an operation that is not a
\* getter fails with the destroyed error.
C10_DestroyedCallsFail ==
  (engines[1].destroyed /\ lastOp.op \in {"attach", "play", "pause", "setMuted", "setLoop"}) =>
    lastOp.res = "DestroyedError"

\* C11: the pool's activeId is null or a key present in the pool's mapping.
C11_ActiveIdPresent ==
  activeId = None \/ PoolGet(players, activeId) # 0

\* C12: a retainOnly(S) step drops exactly the entries whose id is not in S
\* and leaves their engines destroyed, leaves every kept entry's engine and
\* its element as they were, and sets activeId to null exactly when the
\* previous activeId was not in S.
C12_RetainOnlyExact ==
  [][\A keep \in SUBSET PoolIds :
       (lastOp'.op = "retainOnly" /\ RetainOnly(keep)) =>
         /\ players' = SelectSeq(players, LAMBDA entry : entry.id \in keep)
         /\ \A i \in 1..Len(players) :
              LET p == players[i].p IN
              IF players[i].id \in keep
              THEN /\ engines'[p] = engines[p]
                   /\ engines[p].video # None => dom'[engines[p].video] = dom[engines[p].video]
              ELSE engines'[p].destroyed
         /\ (activeId' = None) <=> (activeId \notin keep)]_vars

\* C13: no two engines have the same element as their surface.
C13_SurfaceExclusive ==
  \A e1, e2 \in 1..Len(engines) :
    (e1 # e2 /\ engines[e1].video # None) => engines[e1].video # engines[e2].video

\* The steps in which the element delivers loadedmetadata or loadeddata
LoadedSteps == {"loadedmetadata", "loadeddata"}

\* The emit() calls of a step, without the handlers they reached
Events(out) == [i \in 1..Len(out) |-> [ev |-> out[i].ev, arg |-> out[i].arg]]

\* C14: ready becomes true only in a loadedmetadata/loadeddata step, and it
\* does so in the first such step after a source was applied in which the
\* element reports non-zero width and height; that step emits ready, resize
\* and loading(false) in this order with the element's dimensions; every
\* other loadedmetadata/loadeddata step emits nothing, no other step emits
\* ready, and ready becomes false only when a load applies a source or the
\* engine detaches.
C14_ReadyOnce ==
  [][LET p  == engines[1]
         q  == engines'[1]
         el == p.video
     IN /\ lastOp'.op \in LoadedSteps =>
             IF ~p.ready /\ dom'[el].vw # 0 /\ dom'[el].vh # 0
             THEN LET payload == [isVertical |-> dom'[el].vh > dom'[el].vw,
                                  width |-> dom'[el].vw, height |-> dom'[el].vh]
                  IN /\ q.ready
                     /\ Events(emitted') = <<[ev |-> "ready", arg |-> payload],
                                             [ev |-> "resize", arg |-> payload],
                                             [ev |-> "loading", arg |-> [on |-> FALSE]]>>
             ELSE /\ q.ready = p.ready
                  /\ emitted' = <<>>
        /\ lastOp'.op \notin LoadedSteps =>
             /\ \A i \in 1..Len(emitted') : emitted'[i].ev # "ready"
             /\ q.ready => p.ready
        /\ (p.ready /\ ~q.ready) => lastOp'.op \in LoadSteps \cup DetachSteps]_vars

\* C14 witness: a loadeddata event with dimensions arrives at an engine that
\* is already ready, and emits nothing
C14_LaterEventSilent ==
  /\ lastOp.op = "loadeddata"
  /\ engines[1].ready
  /\ dom[engines[1].video].vw # 0
  /\ emitted = <<>>

LoadingTrue == [ev |-> "loading", arg |-> [on |-> TRUE]]

\* The events a load call has emitted when the step that applies its source
\* ends: a load(ref) call has emitted loading(true) before its await
CallEvents(op, out) ==
  IF op.op = "resolve" THEN <<LoadingTrue>> \o Events(out) ELSE Events(out)

\* C15: a load call that has applied its source has emitted exactly one
\* loading(true), and no error or fallback event before it.
C15_OneLoadingBeforeStrategy ==
  (lastOp.op \in {"load", "resolve"} /\ lastOp.res = "ok") =>
    LET evs == CallEvents(lastOp, emitted)
    IN /\ Cardinality({i \in 1..Len(evs) : evs[i] = LoadingTrue}) = 1
       /\ \A i \in 1..Len(evs) :
            evs[i].ev \in {"error", "fallback"} =>
              \E j \in 1..(i - 1) : evs[j] = LoadingTrue

\* C16: after a load has selected its strategy, with either Player: if the
\* platform reports hls.js support the engine holds an hls.js instance
\* attached to the element; otherwise, if it reports native HLS, the element's
\* src is the manifest URL and there is no instance; otherwise there is no
\* source and the fatal error 'No HLS support detected' was emitted.
C16_StrategyByCapability ==
  (lastOp.op \in {"load", "loadCore"} /\ lastOp.res = "ok") =>
    LET p == engines[lastOp.e]
        src == dom[p.video].src
        noSupport == \E i \in 1..Len(emitted) :
                       /\ emitted[i].ev = "error"
                       /\ emitted[i].arg = [message |-> "No HLS support detected", fatal |-> TRUE]
    IN IF platform.supportsHlsJs
       THEN p.hls # 0 /\ src = Blob /\ ~noSupport
       ELSE IF platform.supportsNativeHLS
       THEN p.hls = 0 /\ src \in {"a0", "b0"} /\ ~noSupport
       ELSE p.hls = 0 /\ src = None /\ noSupport

\* C17: an attach(s) step on an engine attached to s changes nothing; an
\* attach(s2) step on an engine attached to another element leaves that
\* element without source, paused and without the engine's listeners, leaves
\* the engine without hls.js instance, not ready, with cursor 0 and an empty
\* fallback list, and with listeners (and the observer, when autopause is
\* on) on s2 only.
C17_AttachIdempotentOrFullDetach ==
  [][(lastOp'.op = "attach" /\ lastOp'.res = "ok") =>
       LET p == engines[1]
           q == engines'[1]
       IN IF q.video = p.video
          THEN engines' = engines /\ dom' = dom /\ emitted' = <<>>
          ELSE /\ p.video # None =>
                    /\ dom'[p.video].src = None
                    /\ dom'[p.video].paused
               /\ q.cleanupFns = {q.video}
               /\ q.hls = 0 /\ q.hlsInst = {}
               /\ ~q.ready
               /\ q.fallbackIndex = 0 /\ q.fallbacks = <<>>
               /\ \A o \in q.observers : o.id = q.observer /\ o.target = q.video
               /\ (q.observer # 0) = q.cfgAutopause]_vars

\* C17 witness: the engine has moved to s2 from s1, on which it had loaded a
\* source, and observes the viewport
C17_Reattached ==
  /\ lastOp.op = "attach"
  /\ engines[1].video = "s2"
  /\ dom["s1"].poster = "pa"
  /\ dom["s1"].src = None
  /\ engines[1].observer # 0

\* C18: a load on an engine without element fails with the not-attached
\* error; a load(ref) on an attached engine fails with the invalid-reference
\* error exactly when the reference lacks an author or a permlink; a load
\* that fails in one of these ways emits nothing and changes neither the
\* engine nor an element nor the stored positions.
C18_LoadFailsClean ==
  [][LET p == engines[1]
         clean == emitted' = <<>> /\ engines' = engines /\ dom' = dom /\ storage' = storage
     IN /\ \A source \in DirectSources :
             (lastOp'.op = "load" /\ LoadDirect(1, source)) =>
               IF p.video = None
               THEN lastOp'.res = "NotAttachedError" /\ clean
               ELSE lastOp'.res = "ok"
        /\ \A ref \in RefInputs :
             (lastOp'.op = "loadRef" /\ LoadRef(1, ref)) =>
               IF p.video = None
               THEN lastOp'.res = "NotAttachedError" /\ clean
               ELSE IF ref \notin ValidRefs
               THEN lastOp'.res = "InvalidReferenceError" /\ clean
               ELSE lastOp'.res = "pending"]_vars

\* C18 witness: an invalid reference was refused by an engine that is ready
\* and has a fallback list
C18_InvalidRefused ==
  /\ lastOp.op = "loadRef"
  /\ lastOp.res = "InvalidReferenceError"
  /\ engines[1].ready
  /\ engines[1].fallbacks # <<>>

\* C19: a prefetch or prefetchByRef call resolves, however the servers
\* answer.
C19_PrefetchNeverFails ==
  lastOp.op \in {"prefetch", "prefetchByRef"} => lastOp.res = "ok"

\* What C20 asks of a step of an engine with resume enabled
ResumeRule ==
  LET p  == engines[1]
      q  == engines'[1]
      el == p.video
      saved == IF p.currentRef = <<>> THEN NoItem ELSE storage[p.currentRef]
      t == parseFloat(saved)
      duration == dom'[el].duration
      nearEnd == duration # NaN /\ duration # 0 /\ t > duration - ThreeSeconds
      resumed == \E i \in 1..Len(emitted') :
                   emitted'[i].ev = "resume" /\ emitted'[i].arg.time = t
  IN /\ \A k \in ResumeKeys :
          storage'[k] # storage[k] =>
            storage'[k].text = "number" /\ storage'[k].value >= OneSecond
     /\ (~p.ready /\ q.ready) =>
          IF t # NaN /\ t >= OneSecond /\ ~nearEnd
          THEN dom'[el].currentTime = t /\ resumed
          ELSE /\ dom'[el].currentTime = dom[el].currentTime
               /\ \A i \in 1..Len(emitted') : emitted'[i].ev # "resume"

\* C20: no step writes a position below 1 second to storage; a step in
\* which the engine becomes ready sets the current time to the saved
\* position t and emits resume{time: t} if t is a number, t >= 1 s and t is
\* not later than 3 s before the end of a known duration, and otherwise
\* leaves the current time alone and emits no resume.
C20_ResumeRestore == [][ResumeRule]_vars

\* C21: the engine never has more than one connected observer, and none it
\* does not hold; enableAutopause applied twice gives what it gives applied
\* once, and so does disableAutopause; right after disableAutopause, detach
\* or destroy no observer of the engine is connected.
C21_OneObserver ==
  LET p == engines[1]
      enabled == PlayerEnableAutopause(World, 1)
      disabled == PlayerDisableAutopause(World, 1)
  IN /\ Cardinality(p.observers) <= 1
     /\ \A o \in p.observers : o.id = p.observer
     /\ PlayerEnableAutopause(enabled, 1) = enabled
     /\ PlayerDisableAutopause(disabled, 1) = disabled
     /\ lastOp.op \in {"disableAutopause", "detach", "destroy"} => p.observers = {}

\* C21 witness: autopause was switched off on an attached engine that had
\* been constructed without it, so an observer had been connected
C21_SwitchedOff ==
  /\ lastOp.op = "disableAutopause"
  /\ engines[1].video = "s2"
  /\ engines[1].observers = {}
  /\ PlayerEnableAutopause(World, 1).eng[1].observers # {}

\* The handlers' code with every throwing body replaced by one that returns
Calm == [h \in Callbacks |-> IF HandlerBody[h] = "throws" THEN "returns" ELSE HandlerBody[h]]

\* cb is called by emission number i of the step that ends, or by a later one
CalledFrom(i, cb) ==
  \E i2 \in i..Len(emitted') :
    emitted'[i2].ev = emitted'[i].ev /\ cb \in Range(emitted'[i2].to)

\* C22: in every step no handler's exception reaches the caller, every
\* function subscribed when an event is emitted is called in that step, and
\* a load() call leaves the engine, the element and the emitted events as
\* it would had the throwing handlers returned.
C22_ThrowingHandlerContained ==
  [][/\ lastOp'.res # "HandlerError"
     /\ \A i \in 1..Len(emitted') :
          \A cb \in Range(emitted'[i].subs) : CalledFrom(i, cb)
     /\ (lastOp'.op = "load" /\ LoadDirect(1, SrcA)) =>
          LET calm == PlayerLoadSource([World EXCEPT !.bodies = Calm], 1, SrcA)
          IN /\ engines' = calm.eng
             /\ dom' = calm.dom
             /\ emitted' = calm.out]_vars

\* C22 witness: a load has emitted loading to a throwing handler and then to
\* another handler
C22_CalledAfterThrow ==
  /\ lastOp.op = "load"
  /\ \E i \in 1..Len(emitted) :
       /\ Len(emitted[i].to) >= 2
       /\ emitted[i].to[1].fn = "hThrow"

\* How often the step that ends has called cb for event ev
Calls(ev, cb) ==
  Cardinality({ij \in (1..Len(emitted')) \X (1..MaxListeners) :
                 /\ emitted'[ij[1]].ev = ev
                 /\ ij[2] <= Len(emitted'[ij[1]].to)
                 /\ emitted'[ij[1]].to[ij[2]] = cb})

\* C28: after the function on or once returned is called, the function it
\* stands for is not subscribed; a step calls only functions that were
\* subscribed when it began; a step calls a wrapper of once at most once,
\* also when the event is emitted again inside the handler, and the wrapper
\* is not subscribed afterwards.
C28_UnsubscribeAndOnce ==
  [][\A ev \in EmitterEvents :
       LET before == Range(engines[1].listeners[ev])
           after  == Range(engines'[1].listeners[ev])
       IN /\ \A cb \in before :
               (lastOp'.op = "unsub" /\ Unsubscribe(1, ev, cb)) => cb \notin after
          /\ \A i \in 1..Len(emitted') :
               emitted'[i].ev = ev => Range(emitted'[i].to) \subseteq before
          /\ \A cb \in before :
               (cb.once # 0 /\ Calls(ev, cb) > 0) =>
                  Calls(ev, cb) = 1 /\ cb \notin after]_vars

\* C28 witness: a handler subscribed with once was called, loaded another
\* source from inside, which emitted the event again, and is subscribed no
\* more
C28_ReloadedOnce ==
  /\ lastOp.op = "load"
  /\ Len(emitted) >= 2
  /\ \E cb \in Range(emitted[1].to) : cb.fn = "hReload"
  /\ emitted[2].ev = emitted[1].ev
  /\ \A cb \in Range(engines[1].listeners["loading"]) : cb.fn # "hReload"

\* What C23 asks of a step add(id, el, source)
AddRule(id, el, source) ==
  LET cur == PoolGet(players, id)
      ret == lastOp'.e
      loaded == source.url # None =>
                  /\ engines'[ret].fallbacks = source.fallbacks
                  /\ (platform.supportsHlsJs \/ platform.supportsNativeHLS) =>
                        ActiveSource(engines'[ret], dom') = source.url
  IN /\ activeId' = activeId
     /\ \A i \in 1..Len(players) :
          players[i].id # id =>
            LET p == players[i].p IN
            /\ PoolGet(players', players[i].id) = p
            /\ engines'[p] = engines[p]
            /\ engines[p].video # None => dom'[engines[p].video] = dom[engines[p].video]
     /\ IF cur # 0 /\ engines[cur].video = el
        THEN /\ ret = cur
             /\ players' = players
             /\ engines'[cur].video = el
             /\ loaded
             /\ source.url = None => (engines' = engines /\ dom' = dom)
        ELSE /\ cur # 0 => engines'[cur].destroyed
             /\ ret = Len(engines) + 1
             /\ Len(engines') = ret
             /\ PoolGet(players', id) = ret
             /\ engines'[ret].video = el
             /\ ~engines'[ret].destroyed
             /\ loaded

\* C23: an add(id, el, source) step on an entry attached to el returns that
\* entry's engine, with the source loaded when one is given and nothing
\* changed otherwise; any other add step destroys the entry's engine, if
\* there is one, and stores under id a new engine attached to el, with the
\* source loaded when one is given; no add step changes activeId, another
\* entry, its engine or its element.
C23_AddReusesOrReplaces ==
  [][\A id \in PoolIds, el \in Surfaces, source \in {SrcA, NoSource} :
       (lastOp'.op = "add" /\ Add(id, el, source)) => AddRule(id, el, source)]_vars

\* C24: a step that is neither a load nor a detach does not take
\* getState().isVertical from a boolean back to null, and after every step
\* isVertical is a boolean if ready is true.
C24_IsVerticalStable ==
  [][LET before == getState(engines[1], dom)
         after  == getState(engines'[1], dom')
     IN /\ (before.isVertical # <<>> /\ lastOp'.op \notin LoadSteps \cup DetachSteps) =>
             after.isVertical # <<>>
        /\ after.ready => after.isVertical # <<>>]_vars

\* C25: the fallback list metadataToSource returns holds, in rank order,
\* the first occurrence of every fallback URL that is not null and not the
\* primary URL, and nothing else: no URL twice, never the primary.
C25_FallbacksDeduplicated ==
  lastOp.op = "metadataToSource" =>
    LET meta == lastOp.meta
        ranked == <<meta.videoUrlFallback1, meta.videoUrlFallback2, meta.videoUrlFallback3>>
        kept == {i \in 1..3 : /\ ranked[i] # None
                              /\ ranked[i] # meta.videoUrl
                              /\ \A j \in 1..(i - 1) : ranked[j] # ranked[i]}
        rank(url) == CHOOSE i \in kept : ranked[i] = url
        fallbacks == lastOp.ret.fallbacks
    IN /\ Len(fallbacks) = Cardinality(kept)
       /\ Range(fallbacks) = {ranked[i] : i \in kept}
       /\ \A a, b \in 1..Len(fallbacks) : a < b => rank(fallbacks[a]) < rank(fallbacks[b])

\* C26: a setVolume(v) step on an attached engine sets the element's volume
\* to 1 if v > 1, to 0 if v < 0 and to v otherwise, and changes nothing
\* else; on an engine without element it changes nothing at all.
C26_VolumeClamped ==
  [][lastOp'.op = "setVolume" =>
       LET v == lastOp'.n
           el == engines[1].video
           clamped == IF v > FullVolume THEN FullVolume ELSE IF v < 0 THEN 0 ELSE v
       IN /\ engines' = engines
          /\ emitted' = <<>>
          /\ dom' = IF el = None THEN dom ELSE [dom EXCEPT ![el].volume = clamped]]_vars

\* C26 witness: setVolume(-0.2) has set the volume of an element that was
\* not silent to 0
C26_ClampedToZero ==
  /\ lastOp.op = "setVolume"
  /\ lastOp.n < 0
  /\ engines[1].video = "s1"
  /\ dom["s1"].volume = 0
  /\ dom["s2"].volume = 5

\* C27: detectPlatform never probes a second time, and a call made when a
\* result is cached returns that object and leaves the cache as it is,
\* whatever the runtime has become.
C27_ProbedOnce ==
  [][lastOp'.op = "detectPlatform" =>
       /\ platform'.probes <= 1
       /\ platform.cached # <<>> =>
            /\ lastOp'.ret = platform.cached[1]
            /\ platform'.cached = platform.cached
            /\ platform'.probes = platform.probes]_vars

\* C27 witness: a call has returned the cached object in a runtime whose
\* probe would give another result
C27_StaleAnswer ==
  /\ lastOp.op = "detectPlatform"
  /\ platform.calls >= 2
  /\ lastOp.ret # Probe(platform.runtime, 1)

C30_FallbackFrame ==
  [][lastOp'.res = "fallback" =>
       LET p == engines[1]
           q == engines'[1]
       IN /\ q.fallbackIndex = p.fallbackIndex + 1
          /\ ActiveSource(q, dom') = p.fallbacks[q.fallbackIndex]
          /\ q.ready = p.ready
          /\ q.fallbacks = p.fallbacks
          /\ q.hls = p.hls
          /\ {i.id : i \in q.hlsInst} = {i.id : i \in p.hlsInst}
          /\ [q EXCEPT !.fallbackIndex = 0, !.hlsInst = {}]
               = [p EXCEPT !.fallbackIndex = 0, !.hlsInst = {}]
          /\ p.hls # 0 => dom' = dom
          /\ \A el \in Surfaces :
               [dom'[el] EXCEPT !.src = None, !.vw = 0, !.vh = 0,
                                !.currentTime = 0, !.duration = NaN]
                 = [dom[el] EXCEPT !.src = None, !.vw = 0, !.vh = 0,
                                   !.currentTime = 0, !.duration = NaN]
          /\ \A el \in Surfaces \ {p.video} : dom'[el] = dom[el]]_vars

\* C30 witness: a fallback has succeeded on the hls.js path of an engine
\* that is ready
C30_FallbackWhileReady ==
  /\ lastOp.res = "fallback"
  /\ engines[1].ready
  /\ engines[1].hls # 0
  /\ engines[1].fallbackIndex = 2

\* C31: a step of a non-fatal hls.js error emits one error event with
\* fatal = false and changes neither the engine nor an element; a step of
\* an element error on an engine that holds an hls.js instance changes and
\* emits nothing; the cursor advances and a fallback event is emitted only
\* in a step of a fatal hls.js error or of an element error on an engine
\* that holds no hls.js instance.
C31_FallbackTriggers ==
  [][LET p == engines[1]
         q == engines'[1]
         trigger == \/ lastOp'.op = "hlsFatal"
                    \/ lastOp'.op = "videoError" /\ p.hls = 0
     IN /\ lastOp'.op = "hlsError" =>
             /\ engines' = engines
             /\ dom' = dom
             /\ Len(emitted') = 1
             /\ emitted'[1].ev = "error"
             /\ ~emitted'[1].arg.fatal
        /\ (lastOp'.op = "videoError" /\ p.hls # 0) =>
             /\ engines' = engines
             /\ dom' = dom
             /\ emitted' = <<>>
        /\ q.fallbackIndex > p.fallbackIndex => trigger
        /\ (\E i \in 1..Len(emitted') : emitted'[i].ev = "fallback") => trigger]_vars

\* C31 witness: the element reported an error to an engine that plays
\* through hls.js and has a fallback left; nothing was emitted
C31_NativeErrorIgnored ==
  /\ lastOp.op = "videoError"
  /\ engines[1].hls # 0
  /\ engines[1].fallbackIndex < Len(engines[1].fallbacks)
  /\ emitted = <<>>

---------------------------------------------------------------------------
(* A pool driven through its bulk controls *)

InitPoolControls ==
  /\ InitPool
  /\ platform.supportsHlsJs /\ ~platform.supportsNativeHLS

NextPoolControls ==
  \/ \E id \in PoolIds, el \in Surfaces : Add(id, el, NoSource)
  \/ \E id \in PoolIds : Remove(id)
  \/ \E id \in PoolIds, allowed \in BOOLEAN : Activate(id, allowed)
  \/ PauseAll
  \/ \E muted \in BOOLEAN : SetAllMuted(muted)
  \/ \E loop \in BOOLEAN : SetAllLoop(loop)

SpecPoolControls == InitPoolControls /\ [][NextPoolControls]_vars

\* C32: pauseAll, setAllMuted and setAllLoop leave the pool's entries and
\* activeId as they were; after pauseAll every entry's engine reports
\* paused, after setAllMuted(m) every entry's engine reports muted = m, and
\* after setAllLoop(l) every entry's engine and its element have loop = l.
C32_BulkControls ==
  [][LET bulk == {"pauseAll", "setAllMuted", "setAllLoop"}
         Entries == {players'[i].p : i \in 1..Len(players')}
         MutedOf(p) == IF engines'[p].video = None THEN engines'[p].cfgMuted
                       ELSE dom'[engines'[p].video].muted
     IN /\ lastOp'.op \in bulk => players' = players /\ activeId' = activeId
        /\ lastOp'.op = "pauseAll" =>
             \A p \in Entries : getState(engines'[p], dom').paused
        /\ \A m \in BOOLEAN :
             (lastOp'.op = "setAllMuted" /\ SetAllMuted(m)) =>
               \A p \in Entries : MutedOf(p) = m
        /\ \A l \in BOOLEAN :
             (lastOp'.op = "setAllLoop" /\ SetAllLoop(l)) =>
               \A p \in Entries : /\ engines'[p].cfgLoop = l
                                  /\ engines'[p].video # None
                                  /\ dom'[engines'[p].video].loop = l]_vars

\* pauseAll has just run over two entries on two surfaces, one of them the
\* active entry, and both are paused
C32_AllPaused ==
  /\ lastOp.op = "pauseAll"
  /\ Len(players) = 2
  /\ activeId # None
  /\ PoolGet(players, activeId) # 0
  /\ engines[players[1].p].video # engines[players[2].p].video
  /\ \A i \in 1..Len(players) : IsPaused(players[i].p)

\* C33: a position written under the key of reference R is the position of
\* media loaded from R: in a step that changes the item stored under R, the
\* engine's active source is the primary URL or a fallback of R's source.
C33_SavedUnderOwnRef ==
  [][\A k \in ResumeKeys :
       storage'[k] # storage[k] =>
         LET source == metadataToSource(Catalog(k[1], k[2]))
         IN ActiveSource(engines[1], dom) \in {source.url} \cup Range(source.fallbacks)]_vars

---------------------------------------------------------------------------
(* One engine on element s1 whose resolutions and media events are         *)
(* eventually delivered                                                    *)

\* what the runtime owes a load: the outcome of a resolution in flight
ResolutionOutcome == \E p \in Promises : ResolveOk(p) \/ ResolveFail(p)

\* what the element owes a source it was given: its metadata
MediaOutcome == \E kind \in LoadedSteps : Loaded(1, "s1", kind, <<2, 1>>)

NextLoading ==
  \/ Attach(1, "s1")
  \/ \E ref \in RefInputs : LoadRef(1, ref)
  \/ \E source \in DirectSources : LoadDirect(1, source)
  \/ \E p \in Promises : ResolveOk(p)
  \/ \E p \in Promises : ResolveFail(p)
  \/ \E h \in 1..3 : HlsError(1, h, TRUE)
  \/ VideoError(1, "s1")
  \/ \E kind \in LoadedSteps, d \in DimPairs : Loaded(1, "s1", kind, d)

SpecLoading ==
  /\ Init
  /\ [][NextLoading]_vars
  /\ WF_vars(ResolutionOutcome)
  /\ WF_vars(MediaOutcome)

\* C34: a step in which a load call emits loading(true) is eventually
\* followed by a step that emits loading(false) or a fatal error event.
C34_LoadingAnswered ==
  (\E i \in 1..Len(emitted) : emitted[i].ev = "loading" /\ emitted[i].arg.on)
    ~> (\E i \in 1..Len(emitted) :
          \/ emitted[i].ev = "loading" /\ ~emitted[i].arg.on
          \/ emitted[i].ev = "error" /\ emitted[i].arg.fatal)

\* C35: an engine that is ready, has a live hls.js instance, a connected
\* observer or a pending resume-save timer has its element; an engine without
\* an element is not ready, has cursor 0 and an empty fallback list.
C35_DetachedIsIdle ==
  \A e \in 1..Len(engines) :
    LET p == engines[e] IN
    /\ p.ready => p.video # None
    /\ (p.hls # 0 \/ p.hlsInst # {}) => p.video # None
    /\ (p.observer # 0 \/ p.observers # {} \/ p.resumeSaveTimer) => p.video # None
    /\ p.video = None => ~p.ready /\ p.fallbackIndex = 0 /\ p.fallbacks = <<>>

---------------------------------------------------------------------------
(* A pool whose entries are added by reference *)

MaxPoolEngines == 2   \* engines the pool constructs
MaxAwaited == 1       \* addByRef calls awaiting their resolution at one time

\* The promises the addByRef calls of a pool can be awaiting: the load(ref)
\* of engine e, which add stored under id
PoolPromises == {[e |-> e, author |-> "bob", permlink |-> "v2", cur |-> c, id |-> id] :
                   e \in 1..MaxPoolEngines, c \in BOOLEAN, id \in PoolIds}

\* The number of resolutions in flight
RECURSIVE Awaited(_)
Awaited(ps) ==
  IF ps = {} THEN 0
  ELSE LET p == CHOOSE p \in ps : TRUE IN pending[p] + Awaited(ps \ {p})

\* PlayerPool.addByRef up to its await: add(id, element), then the load call
\* of the engine add returned runs to its own await
AddByRef(id, el, author, permlink) ==
  LET cur == PoolGet(players, id)
      reuse == cur # 0 /\ engines[cur].video = el
      e == IF reuse THEN cur ELSE Len(engines) + 1
      w1 == IF cur # 0 THEN PlayerDestroy(World, cur) ELSE World
      w2 == [w1 EXCEPT !.eng = Append(@, NewPlayer)]
      w3 == IF reuse THEN World ELSE PlayerAttach(w2, e, el)
      w4 == PlayerLoadRef(w3, e, [at |-> FALSE, parts |-> <<author, permlink>>])
  IN /\ reuse \/ Len(engines) < MaxPoolEngines
     /\ Awaited(DOMAIN pending) < MaxAwaited
     /\ InFlightBound(e)
     /\ players' = IF reuse THEN players ELSE MapSet(players, id, e)
     /\ Commit(w4, Op("addByRef", e, 0))
     /\ pending' = IF w4.res = "pending"
                   THEN [Supersede(e) EXCEPT ![[e |-> e, author |-> author,
                                                permlink |-> permlink, cur |-> TRUE,
                                                id |-> id]] = 1]
                   ELSE Supersede(e)
     /\ UNCHANGED <<platform, network, activeId>>

InitPoolRef ==
  /\ platform \in Platforms
  /\ ~platform.supportsHlsJs /\ platform.supportsNativeHLS
  /\ engines = <<>>
  /\ dom = [s \in Surfaces |-> NewElement]
  /\ pending = [p \in PoolPromises |-> 0]
  /\ players = <<>>
  /\ activeId = None
  /\ storage = NoItems
  /\ network = [answers |-> Online, requests |-> <<>>]
  /\ emitted = <<>>
  /\ lastOp = Op("new", 0, 0)

\* The resolutions are those of addByRef calls: when one arrives, the call
\* returns the engine it awaited (resolve) or rejects (reject)
NextPoolRef ==
  \/ \E id \in PoolIds : AddByRef(id, "s1", "bob", "v2")
  \/ \E id \in PoolIds, el \in Surfaces :
       Add(id, el, NoSource) /\ Len(engines') <= MaxPoolEngines
  \/ \E id \in PoolIds : Remove(id)
  \/ \E id \in PoolIds : Activate(id, TRUE)
  \/ \E keep \in SUBSET PoolIds : RetainOnly(keep)
  \/ PauseAll
  \/ PoolDestroy
  \/ \E p \in PoolPromises : ResolveOk(p)
  \/ \E p \in PoolPromises : ResolveFail(p)

SpecPoolRef == InitPoolRef /\ [][NextPoolRef]_vars

\* The engines the pool's mapping holds
Stored == {players[i].p : i \in 1..Len(players)}

\* C36: every engine stored in the pool's mapping is not destroyed and has
\* its element, and every engine the pool created and no longer stores is
\* destroyed.
C36_StoredAreLive ==
  \A e \in 1..Len(engines) :
    IF e \in Stored
    THEN ~engines[e].destroyed /\ engines[e].video # None
    ELSE engines[e].destroyed

\* add has replaced an engine whose load was pending, and the resolution has
\* arrived at the replaced engine
C36_ReplacedStaysDestroyed ==
  /\ lastOp.op = "resolve"
  /\ lastOp.e \notin Stored
  /\ engines[lastOp.e].destroyed
  /\ Stored # {}

\* C37: when an addByRef call resolves, the engine it returns is the engine
\* stored under its id and is not destroyed.
C37_ReturnsStoredEngine ==
  [][\A p \in PoolPromises :
       (lastOp'.op = "resolve" /\ ResolveOk(p)) =>
         /\ PoolGet(players', p.id) = p.e
         /\ ~engines'[p.e].destroyed]_vars

---------------------------------------------------------------------------
(* ThreeSpeakAPI.js: the resolver with a cache.  In this specification     *)
(* storage is its _cache, pending its fetches in flight, and network the   *)
(* number of times each key was invalidated so far.                        *)

\* The keys `${author}/${permlink}` of the cache
CacheKeys == {<<"alice", "v1">>, <<"bob", "v2">>}

\* The fetches in flight: at most one per key and number of invalidations
\* of the key at the time the fetch started
Fetches == [key : CacheKeys, since : 0..MaxCalls]

\* The prioritized source list getVideoSources builds from the response
Sources(data) ==
  LET s0 == IF data.videoUrl # None THEN <<[url |-> data.videoUrl, priority |-> 0]>> ELSE <<>>
      s1 == IF data.videoUrlFallback1 # None /\ data.videoUrlFallback1 # data.videoUrl
            THEN <<[url |-> data.videoUrlFallback1, priority |-> 1]>> ELSE <<>>
      s2 == IF data.videoUrlFallback2 # None /\ data.videoUrlFallback2 # data.videoUrl
            THEN <<[url |-> data.videoUrlFallback2, priority |-> 2]>> ELSE <<>>
      s3 == IF data.videoUrlFallback3 # None /\ data.videoUrlFallback3 # data.videoUrl
            THEN <<[url |-> data.videoUrlFallback3, priority |-> 3]>> ELSE <<>>
  IN s0 \o s1 \o s2 \o s3

\* The VideoInfo built from the response of fetch f; since records when the
\* fetch that brought the data started
VideoInfo(f) ==
  LET data == Catalog(f.key[1], f.key[2])
  IN [sources |-> Sources(data), thumbnail |-> data.thumbnail, since |-> f.since]

\* a call's record: what it did, for which key, and the value it returned
\* (<<>> while it awaits and for null)
CacheOp(op, key, ret) == [op |-> op, key |-> key, ret |-> ret]

\* getVideoSources up to its return from the cache or to its await of fetch
GetVideoSources(key, bypassCache) ==
  /\ IF ~bypassCache /\ storage[key] # <<>>
     THEN /\ lastOp' = CacheOp("cached", key, storage[key])
          /\ UNCHANGED pending
     ELSE LET f == [key |-> key, since |-> network[key]]
          IN /\ pending[f] = 0
             /\ pending' = [pending EXCEPT ![f] = 1]
             /\ lastOp' = CacheOp("fetch", key, <<>>)
  /\ UNCHANGED <<platform, engines, dom, players, activeId, storage, network, emitted>>

\* the response arrives and is ok: the call caches and returns the info
FetchOk(f) ==
  /\ pending[f] > 0
  /\ pending' = [pending EXCEPT ![f] = 0]
  /\ storage' = [storage EXCEPT ![f.key] = <<VideoInfo(f)>>]
  /\ lastOp' = CacheOp("fetched", f.key, <<VideoInfo(f)>>)
  /\ UNCHANGED <<platform, engines, dom, players, activeId, network, emitted>>

\* fetch rejects, times out, or the response is not ok: the call returns null
FetchFail(f) ==
  /\ pending[f] > 0
  /\ pending' = [pending EXCEPT ![f] = 0]
  /\ lastOp' = CacheOp("failed", f.key, <<>>)
  /\ UNCHANGED <<platform, engines, dom, players, activeId, storage, network, emitted>>

\* ThreeSpeakAPI.invalidate
Invalidate(key) ==
  /\ network[key] < MaxCalls
  /\ storage' = [storage EXCEPT ![key] = <<>>]
  /\ network' = [network EXCEPT ![key] = @ + 1]
  /\ lastOp' = CacheOp("invalidate", key, <<>>)
  /\ UNCHANGED <<platform, engines, dom, players, activeId, pending, emitted>>

\* ThreeSpeakAPI.clearCache
ClearCache ==
  /\ \A k \in CacheKeys : network[k] < MaxCalls
  /\ storage' = [k \in CacheKeys |-> <<>>]
  /\ network' = [k \in CacheKeys |-> network[k] + 1]
  /\ lastOp' = CacheOp("clearCache", <<>>, <<>>)
  /\ UNCHANGED <<platform, engines, dom, players, activeId, pending, emitted>>

InitCache ==
  /\ platform \in Platforms
  /\ engines = <<>>
  /\ dom = [s \in Surfaces |-> NewElement]
  /\ pending = [f \in Fetches |-> 0]
  /\ players = <<>>
  /\ activeId = None
  /\ storage = [k \in CacheKeys |-> <<>>]
  /\ network = [k \in CacheKeys |-> 0]
  /\ emitted = <<>>
  /\ lastOp = CacheOp("new", <<>>, <<>>)

NextCache ==
  \/ \E key \in CacheKeys, bypassCache \in BOOLEAN : GetVideoSources(key, bypassCache)
  \/ \E f \in Fetches : FetchOk(f)
  \/ \E f \in Fetches : FetchFail(f)
  \/ \E key \in CacheKeys : Invalidate(key)
  \/ ClearCache

SpecCache == InitCache /\ [][NextCache]_vars

\* C38: a getVideoSources call answered from the cache returns data whose
\* fetch started after the key's latest invalidation, and a fetch that was
\* in flight when its key was invalidated leaves the key's entry as it is
\* when it completes; invalidate leaves the entries of other keys alone, and
\* a failed fetch changes no entry.
C38_InvalidateWins ==
  [][/\ lastOp'.op = "cached" => lastOp'.ret[1].since = network[lastOp'.key]
     /\ \A f \in Fetches :
          (lastOp'.op = "fetched" /\ FetchOk(f) /\ f.since < network[f.key]) =>
            storage'[f.key] = storage[f.key]
     /\ lastOp'.op = "invalidate" =>
          \A k \in CacheKeys \ {lastOp'.key} : storage'[k] = storage[k]
     /\ lastOp'.op = "failed" => storage' = storage]_vars

====
